---- MODULE Spec2Model ----
(***************************************************************************)
(* Voxel world core of Minecraft-Py: Block model (world/blocks.py), Chunk  *)
(* storage and persistence (world/chunk.py), Light Engine (utils/light.py) *)
(* and the World chunk manager (world/world.py).                           *)
(*                                                                         *)
(* A Python exception is an outcome of a call: operators that can raise    *)
(* return a record with an "exc" field ("none" when the call returned),    *)
(* and keep the writes made before the exception was raised.               *)
(***************************************************************************)
EXTENDS Integers, Sequences, FiniteSets, TLC

(***************************************************************************)
(* Bounds.  The chunk dimensions are the program's 16 x 256 x 16 scaled    *)
(* down; the depth equals the width as in the source.                      *)
(***************************************************************************)
CHUNK_WIDTH == 2
CHUNK_HEIGHT == 2
CHUNK_DEPTH == 1
CHUNK_VOLUME == CHUNK_WIDTH * CHUNK_HEIGHT * CHUNK_DEPTH

\* number of Chunk.set_block calls explored on the chunk under test
MaxEdits == 2
\* number of Chunk.set_block calls made before the chunk is saved
MaxSavedEdits == 1
MaxCalls == 3

\* the number of chunks that enter world.chunks
MaxLoaded == 11

\* the shape of the voxel array handed to ChunkMesh, and the number of single
\* voxels written into it
DimX == 2
DimY == 2
DimZ == 2
MaxVoxelEdits == 3

\* the number of World.update calls, and of tasks given to World.executor
MaxUpdates == 3
MaxTasks == 3

\* the number of light propagations started on one engine
MaxRuns == 2

(***************************************************************************)
(* Block model                                                             *)
(***************************************************************************)
\* class BlockType(Enum): members in declaration order; auto() numbers from 1
BlockTypeEnum ==
    << "AIR", "STONE", "GRASS", "DIRT", "COBBLESTONE", "BEDROCK", "SAND",
       "GRAVEL", "WATER", "LAVA", "COAL_ORE", "IRON_ORE", "GOLD_ORE",
       "REDSTONE_ORE", "LAPIS_ORE", "DIAMOND_ORE", "EMERALD_ORE", "OAK_LOG",
       "OAK_LEAVES", "SPRUCE_LOG", "SPRUCE_LEAVES", "BIRCH_LOG",
       "BIRCH_LEAVES", "PLANKS", "SAPLING", "FLOWER", "ROSE", "DEAD_BUSH",
       "MUSHROOM", "MUSHROOM_BLOCK", "SUGAR_CANE", "CACTUS", "GLASS", "TNT",
       "CRAFTING_TABLE", "FURNACE", "CHEST", "BOOKSHELF", "FENCE",
       "FENCE_GATE", "DOOR", "TRAPDOOR", "TORCH", "LADDER", "RAIL", "LEVER",
       "BUTTON", "PRESSURE_PLATE", "SIGN", "WHITE_WOOL", "ORANGE_WOOL",
       "MAGENTA_WOOL", "LIGHT_BLUE_WOOL", "YELLOW_WOOL", "LIME_WOOL",
       "PINK_WOOL", "GRAY_WOOL", "LIGHT_GRAY_WOOL", "CYAN_WOOL",
       "PURPLE_WOOL", "BLUE_WOOL", "BROWN_WOOL", "GREEN_WOOL", "RED_WOOL",
       "BLACK_WOOL" >>

BlockTypeNames == { BlockTypeEnum[i] : i \in 1..Len(BlockTypeEnum) }

\* BlockType.<name>.value
BlockTypeValue(name) == CHOOSE i \in 1..Len(BlockTypeEnum) : BlockTypeEnum[i] = name

AIR_VALUE == BlockTypeValue("AIR")

\* BlockType(v): the enum lookup by value raises ValueError for a value
\* that is no member's value (0 among them)
BlockTypeOf(v) ==
    IF v \in 1..Len(BlockTypeEnum)
    THEN [exc |-> "none", val |-> BlockTypeEnum[v]]
    ELSE [exc |-> "ValueError", val |-> "?"]

\* Evaluating a set or dict literal that names BlockType.<X> raises
\* AttributeError when X is no member of the enum.
LiteralRaises(refs) == ~(refs \subseteq BlockTypeNames)

OpaqueRefs ==
    { "STONE", "GRASS", "DIRT", "COBBLESTONE", "BEDROCK", "SAND", "GRAVEL",
      "COAL_ORE", "IRON_ORE", "GOLD_ORE", "REDSTONE_ORE", "LAPIS_ORE",
      "DIAMOND_ORE", "EMERALD_ORE", "OAK_LOG", "SPRUCE_LOG", "BIRCH_LOG",
      "PLANKS", "BOOKSHELF", "MUSHROOM_BLOCK", "CHEST", "TNT",
      "CRAFTING_TABLE", "FURNACE", "WHITE_WOOL", "ORANGE_WOOL",
      "MAGENTA_WOOL", "LIGHT_BLUE_WOOL", "YELLOW_WOOL", "LIME_WOOL",
      "PINK_WOOL", "GRAY_WOOL", "LIGHT_GRAY_WOOL", "CYAN_WOOL",
      "PURPLE_WOOL", "BLUE_WOOL", "BROWN_WOOL", "GREEN_WOOL", "RED_WOOL",
      "BLACK_WOOL", "CACTUS" }

TransparentRefs ==
    { "AIR", "GLASS", "LEAVES", "SAPLING", "FLOWER", "ROSE", "DEAD_BUSH",
      "MUSHROOM", "MUSHROOM_BLOCK", "TORCH", "FENCE", "FENCE_GATE", "DOOR",
      "TRAPDOOR", "LADDER", "RAIL", "LEVER", "BUTTON", "PRESSURE_PLATE",
      "SIGN", "SUGAR_CANE", "WATER", "LAVA" }

\* light_emitters = {TORCH: 14, LAVA: 15, FIRE: 15, GLOWSTONE: 15, JACK_O_LANTERN: 15}
EmitterRefs == { "TORCH", "LAVA", "FIRE", "GLOWSTONE", "JACK_O_LANTERN" }

EmitterLevel(name) ==
    IF name = "TORCH" THEN 14
    ELSE IF name \in EmitterRefs THEN 15
    ELSE 0

\* Block.is_opaque
is_opaque(block) ==
    IF LiteralRaises(OpaqueRefs)
    THEN [exc |-> "AttributeError", val |-> FALSE]
    ELSE [exc |-> "none", val |-> block.block_type \in OpaqueRefs]

\* Block.is_transparent
is_transparent(block) ==
    IF LiteralRaises(TransparentRefs)
    THEN [exc |-> "AttributeError", val |-> FALSE]
    ELSE [exc |-> "none", val |-> block.block_type \in TransparentRefs]

\* Block.get_light_emission
get_light_emission(block) ==
    IF LiteralRaises(EmitterRefs)
    THEN [exc |-> "AttributeError", val |-> 0]
    ELSE [exc |-> "none", val |-> EmitterLevel(block.block_type)]

\* Block.is_liquid
is_liquid(block) == block.block_type \in { "WATER", "LAVA" }

\* Block(block_type=t, metadata=m): the dataclass defaults light_level=0, sky_light=15
Block(t, m) == [block_type |-> t, metadata |-> m, light_level |-> 0, sky_light |-> 15]

\* the value get_block returns for "no block"
None == [block_type |-> "None", metadata |-> 0, light_level |-> 0, sky_light |-> 0]

(***************************************************************************)
(* Chunk storage                                                           *)
(***************************************************************************)
Cells == 0..(CHUNK_VOLUME - 1)
Columns == 0..(CHUNK_WIDTH * CHUNK_DEPTH - 1)

\* Chunk._get_index
_get_index(x, y, z) == (y * CHUNK_DEPTH + z) * CHUNK_WIDTH + x

\* the bounds test of Chunk.get_block / Chunk.set_block
InBounds(x, y, z) ==
    /\ 0 <= x /\ x < CHUNK_WIDTH
    /\ 0 <= y /\ y < CHUNK_HEIGHT
    /\ 0 <= z /\ z < CHUNK_DEPTH

\* Chunk.__init__(position, generate=False) with _init_arrays
EmptyChunk(pos) ==
    [ position      |-> pos,
      type          |-> [i \in Cells |-> 0],
      metadata      |-> [i \in Cells |-> 0],
      sky_light     |-> [i \in Cells |-> 15],
      block_light   |-> [i \in Cells |-> 0],
      height_map    |-> [c \in Columns |-> CHUNK_HEIGHT],
      mesh_valid    |-> FALSE,
      is_loaded     |-> FALSE,
      is_modified   |-> FALSE,
      is_generating |-> FALSE,
      is_dirty      |-> TRUE ]

\* Chunk.get_block
chunk_get_block(c, x, y, z) ==
    IF ~InBounds(x, y, z) THEN [exc |-> "none", val |-> None]
    ELSE LET index == _get_index(x, y, z)
             bt == BlockTypeOf(c.type[index])
         IN  IF bt.exc # "none" THEN [exc |-> bt.exc, val |-> None]
             ELSE IF bt.val = "AIR" THEN [exc |-> "none", val |-> None]
             ELSE [exc |-> "none",
                   val |-> [block_type  |-> bt.val,
                            metadata    |-> c.metadata[index],
                            light_level |-> c.block_light[index],
                            sky_light   |-> c.sky_light[index]]]

RECURSIVE ScanDown(_, _, _, _)
\* the loop of Chunk._recalculate_height from y downward: the first y whose
\* stored type differs from BlockType.AIR.value, or -1
ScanDown(c, x, z, y) ==
    IF y < 0 THEN -1
    ELSE IF c.type[_get_index(x, y, z)] # AIR_VALUE THEN y
    ELSE ScanDown(c, x, z, y - 1)

\* Chunk._recalculate_height
_recalculate_height(c, x, z) ==
    [c EXCEPT !.height_map[z * CHUNK_WIDTH + x] = ScanDown(c, x, z, CHUNK_HEIGHT - 1)]

\* the height-map branch of Chunk.set_block for a non-air block
RaiseHeight(c, x, y, z) ==
    IF y < c.height_map[z * CHUNK_WIDTH + x]
    THEN [c EXCEPT !.height_map[z * CHUNK_WIDTH + x] = y]
    ELSE c

\* a set_block that marks the chunk before it tests the coordinates
SetBlockMarksFirst(c, x, y, z, block) ==
    [c EXCEPT !.is_modified = TRUE, !.is_dirty = TRUE, !.mesh_valid = FALSE]

\* Chunk.set_block
chunk_set_block(c, x, y, z, block) ==
    IF ~InBounds(x, y, z) THEN c
    ELSE LET index == _get_index(x, y, z)
             w == [c EXCEPT !.type[index]        = BlockTypeValue(block.block_type),
                            !.metadata[index]    = block.metadata % 256,
                            !.block_light[index] = block.light_level % 256,
                            !.sky_light[index]   = block.sky_light % 256,
                            !.is_modified        = TRUE,
                            !.is_dirty           = TRUE,
                            !.mesh_valid         = FALSE]
         IN  IF block.block_type # "AIR"
             THEN RaiseHeight(w, x, y, z)
             ELSE _recalculate_height(w, x, z)

\* Chunk.get_height_at
chunk_get_height_at(c, x, z) ==
    IF 0 <= x /\ x < CHUNK_WIDTH /\ 0 <= z /\ z < CHUNK_DEPTH
    THEN c.height_map[z * CHUNK_WIDTH + x]
    ELSE -1

\* the neighbours Chunk._get_visible_faces looks at: top, bottom, front,
\* back, right, left
FaceOffsets ==
    << << 0, 1, 0 >>, << 0, -1, 0 >>, << 0, 0, 1 >>,
       << 0, 0, -1 >>, << 1, 0, 0 >>, << -1, 0, 0 >> >>

\* Chunk._get_visible_faces: the visible faces of the block at (x, y, z), or
\* the exception of the first get_block / is_opaque call that raises
_get_visible_faces(c, x, y, z) ==
    LET block == chunk_get_block(c, x, y, z)
        neighbor(n) == chunk_get_block(c, x + FaceOffsets[n][1],
                                          y + FaceOffsets[n][2],
                                          z + FaceOffsets[n][3])
        outcome(n) ==
            IF neighbor(n).exc # "none" THEN [exc |-> neighbor(n).exc, seen |-> FALSE]
            ELSE IF neighbor(n).val = None THEN [exc |-> "none", seen |-> TRUE]
            ELSE IF is_opaque(neighbor(n).val).exc # "none"
            THEN [exc |-> is_opaque(neighbor(n).val).exc, seen |-> FALSE]
            ELSE IF is_opaque(neighbor(n).val).val THEN [exc |-> "none", seen |-> FALSE]
            ELSE [exc |-> is_opaque(block.val).exc, seen |-> is_opaque(block.val).val]
        raising == { n \in 1..6 : outcome(n).exc # "none" }
    IN  IF block.exc # "none" THEN [exc |-> block.exc, faces |-> { }]
        ELSE IF block.val = None THEN [exc |-> "none", faces |-> { }]
        ELSE IF raising # { }
        THEN [exc |-> outcome(CHOOSE n \in raising : \A m \in raising : n <= m).exc,
              faces |-> { }]
        ELSE [exc |-> "none", faces |-> { n \in 1..6 : outcome(n).seen }]

\* Chunk._get_face_vertices: the length of the list it returns, 6 vertices
\* of 3 coordinates, 2 texture coordinates, the texture id and the light
_get_face_vertices == 6 * (3 + 2 + 1 + 1)

\* Chunk.build_mesh(visible_blocks): the number of faces whose vertices it
\* returns and the length of the float array, or the exception that ends it;
\* the chunk is only read
build_mesh(c, visible_blocks) ==
    LET rel(pos) == << pos[1] - c.position[1] * CHUNK_WIDTH, pos[2],
                       pos[3] - c.position[2] * CHUNK_DEPTH >>
        inside == { rel(pos) : pos \in { q \in visible_blocks :
                                           InBounds(rel(q)[1], rel(q)[2], rel(q)[3]) } }
        raisingGet == { q \in inside : chunk_get_block(c, q[1], q[2], q[3]).exc # "none" }
        drawn == { q \in inside \ raisingGet : chunk_get_block(c, q[1], q[2], q[3]).val # None }
        raisingFaces == { q \in drawn : _get_visible_faces(c, q[1], q[2], q[3]).exc # "none" }
        emitted == UNION { { << q, n >> : n \in _get_visible_faces(c, q[1], q[2], q[3]).faces } :
                             q \in drawn }
    IN  IF raisingGet # { }
        THEN [exc |-> chunk_get_block(c, (CHOOSE q \in raisingGet : TRUE)[1],
                                         (CHOOSE q \in raisingGet : TRUE)[2],
                                         (CHOOSE q \in raisingGet : TRUE)[3]).exc,
              faces |-> 0, floats |-> 0]
        ELSE IF raisingFaces # { }
        THEN [exc |-> _get_visible_faces(c, (CHOOSE q \in raisingFaces : TRUE)[1],
                                            (CHOOSE q \in raisingFaces : TRUE)[2],
                                            (CHOOSE q \in raisingFaces : TRUE)[3]).exc,
              faces |-> 0, floats |-> 0]
        ELSE [exc |-> "none", faces |-> Cardinality(emitted),
              floats |-> Cardinality(emitted) * _get_face_vertices]

(***************************************************************************)
(* Noise                                                                   *)
(***************************************************************************)
\* NoiseGenerator.get_height for the seed Chunk.generate hard-codes (12345):
\* the values the source computes for world columns x in -8..7 (row z+4,
\* column x+9), z in -3..3
HeightTable ==
    << << 65, 66, 67, 68, 69, 70, 71, 72, 73, 74, 74, 75, 75, 75, 75, 75 >>,
       << 65, 66, 67, 68, 69, 70, 71, 72, 73, 74, 74, 75, 75, 75, 75, 75 >>,
       << 65, 66, 67, 68, 69, 70, 71, 72, 73, 74, 74, 75, 75, 75, 75, 75 >>,
       << 66, 66, 67, 68, 69, 70, 71, 72, 73, 74, 74, 75, 75, 75, 75, 75 >>,
       << 66, 66, 67, 68, 69, 70, 71, 72, 73, 74, 74, 75, 75, 75, 75, 75 >>,
       << 66, 67, 67, 68, 69, 70, 71, 72, 73, 74, 74, 75, 75, 75, 75, 76 >>,
       << 67, 67, 68, 68, 69, 70, 71, 72, 73, 74, 75, 75, 75, 76, 76, 76 >> >>

\* NoiseGenerator.get_height(x, z) after noise.seed(12345)
get_height(x, z) == HeightTable[z + 4][x + 9]

\* the multipliers of SimplexNoise.fast_noise and the 31-bit mask 0x7FFFFFFF
HashMulX == 374761393
HashMulY == 668265263
HashMulZ == 1274126177
HashMask == 2147483647

\* Python integers are unbounded; the hash is computed here on base-1024
\* limbs (least significant first) so that no intermediate value leaves the
\* checker's 32-bit integers.
RECURSIVE Carry(_, _, _)
Carry(raw, k, carry) ==
    IF k > Len(raw) THEN << >>
    ELSE << (raw[k] + carry) % 1024 >> \o Carry(raw, k + 1, (raw[k] + carry) \div 1024)

Limbs(n) == << n % 1024, (n \div 1024) % 1024, (n \div 1048576) % 1024, n \div 1073741824, 0 >>

LimbBit(l, k) == (l[(k \div 10) + 1] \div (2 ^ (k % 10))) % 2

RECURSIVE XorShift13(_, _)
\* the low 31 bits of n ^ (n >> 13), from bit k upward
XorShift13(l, k) ==
    IF k > 30 THEN 0
    ELSE ((LimbBit(l, k) + LimbBit(l, k + 13)) % 2) * (2 ^ k) + XorShift13(l, k + 1)

\* (a * b) & 0x7FFFFFFF
MulMask31(a, b) ==
    LET m == Limbs(a)
        c == Limbs(b)
        raw == << m[1] * c[1],
                  m[1] * c[2] + m[2] * c[1],
                  m[1] * c[3] + m[2] * c[2] + m[3] * c[1],
                  m[1] * c[4] + m[2] * c[3] + m[3] * c[2] + m[4] * c[1] >>
        p == Carry(raw, 1, 0)
    IN  p[1] + p[2] * 1024 + p[3] * 1048576 + (p[4] % 2) * 1073741824

\* n & 0x7FFFFFFF after n = x*.. + y*.. + z*..; n = (n ^ (n >> 13)) * 1274126177
fast_noise_bits(x, y, z) ==
    LET lx == Limbs(HashMulX)
        ly == Limbs(HashMulY)
        lz == Limbs(HashMulZ)
        n == Carry([k \in 1..5 |-> x * lx[k] + y * ly[k] + z * lz[k]], 1, 0)
    IN  MulMask31(XorShift13(n, 0), HashMulZ)

\* SimplexNoise.fast_noise(x, y, z) > num/den, where fast_noise is
\* bits / 0x7FFFFFFF - 0.5:  2*den*bits > (2*num + den) * 0x7FFFFFFF
fast_noise_above(x, y, z, num, den) ==
    LET r == fast_noise_bits(x, y, z)
        a == 2 * den
        b == 2 * num + den
        lhsHi == a * (r \div 1024) + (a * (r % 1024)) \div 1024
        lhsLo == (a * (r % 1024)) % 1024
        rhsHi == b * (HashMask \div 1024) + (b * (HashMask % 1024)) \div 1024
        rhsLo == (b * (HashMask % 1024)) % 1024
    IN  lhsHi > rhsHi \/ (lhsHi = rhsHi /\ lhsLo > rhsLo)

\* the elevation thresholds of Chunk._get_block_type_at
BedrockLevel == 5
SnowLevel == 180
MountainLevel == 140
DesertLevel == 100
SubsurfaceDepth == 4

\* Chunk._get_block_type_at: the block type, or AttributeError where the
\* code names a BlockType member the enum lacks
_get_block_type_at(x, y, z, surface_height) ==
    LET ok(name) == IF name \in BlockTypeNames
                    THEN [exc |-> "none", val |-> name]
                    ELSE [exc |-> "AttributeError", val |-> name]
    IN  IF y < BedrockLevel THEN ok("BEDROCK")
        ELSE IF y = surface_height
        THEN IF surface_height > SnowLevel THEN ok("SNOW")
             ELSE IF surface_height > MountainLevel THEN ok("STONE")
             ELSE IF surface_height > DesertLevel THEN ok("SAND")
             ELSE ok("GRASS")
        ELSE IF y < surface_height - SubsurfaceDepth
        THEN IF fast_noise_above(x, y, z, 3, 10) THEN ok("STONE")
             ELSE IF fast_noise_above(x * 2, y * 2, z * 2, 6, 10) THEN ok("DIRT")
             ELSE ok("STONE")
        ELSE ok("DIRT")

\* ChunkPosition.to_world
to_world(pos, x, z) == << pos[1] * CHUNK_WIDTH + x, pos[2] * CHUNK_DEPTH + z >>

Min(a, b) == IF a < b THEN a ELSE b
Max(a, b) == IF a > b THEN a ELSE b

\* the cells in the order Chunk.generate visits them: x, then z, then y upward
GenOrder ==
    [k \in 1..CHUNK_VOLUME |->
        << (k - 1) \div (CHUNK_DEPTH * CHUNK_HEIGHT),
           ((k - 1) \div CHUNK_HEIGHT) % CHUNK_DEPTH,
           (k - 1) % CHUNK_HEIGHT >>]

RECURSIVE GenerateFrom(_, _)
\* the loops of Chunk.generate from the k-th cell on
GenerateFrom(c, k) ==
    IF k > CHUNK_VOLUME THEN [exc |-> "none", c |-> c]
    ELSE LET x == GenOrder[k][1]
             z == GenOrder[k][2]
             y == GenOrder[k][3]
             w == to_world(c.position, x, z)
             height == Max(0, Min(CHUNK_HEIGHT - 1, get_height(w[1], w[2])))
             bt == _get_block_type_at(x, y, z, height)
         IN  IF bt.exc # "none" THEN [exc |-> bt.exc, c |-> c]
             ELSE IF bt.val # "AIR"
             THEN GenerateFrom(chunk_set_block(c, x, y, z, Block(bt.val, 0)), k + 1)
             ELSE GenerateFrom(c, k + 1)

\* Chunk.generate
generate(c) ==
    LET r == GenerateFrom([c EXCEPT !.is_generating = TRUE], 1)
    IN  IF r.exc # "none" THEN r
        ELSE [exc |-> "none",
              c |-> [r.c EXCEPT !.is_generating = FALSE, !.is_loaded = TRUE, !.is_dirty = TRUE]]

(***************************************************************************)
(* Seeds: the process-global generator of the random module, the seed a    *)
(* NoiseGenerator ends up with, and the terrain of a chunk at the height   *)
(* the source gives a chunk.                                               *)
(***************************************************************************)
\* CHUNK_HEIGHT of world/chunk.py, for the columns of generated terrain
FullHeight == 256

\* the seed Chunk.generate gives its NoiseGenerator
GenerateSeed == 12345

\* the names bound at module level in world/world.py (imports and the class)
WorldModuleGlobals ==
    { "os", "threading", "time", "Dict", "List", "Tuple", "Set", "Optional",
      "Callable", "dataclass", "field", "ThreadPoolExecutor", "np", "Chunk",
      "ChunkPosition", "Block", "BlockType", "NoiseGenerator", "LightEngine",
      "World" }

\* random.seed(s): the state of the global generator is a function of s and
\* of the number of draws made since
random_seed(s) == [seed |-> s, used |-> 0]

\* the state after one randint or shuffle
Drawn(st) == [st EXCEPT !.used = @ + 1]

\* random.randint(lo, hi): some value of lo..hi fixed by the state
randint(st, lo, hi) == lo + ((st.seed * 31 + st.used * 17 + 7) % (hi - lo + 1))

NoSeedArg == -1

\* NoiseGenerator(seed): seed_value, and the global state its PerlinNoise and
\* SimplexNoise leave (each reseeds with seed_value, then shuffles)
NoiseGenerator(st, seed) ==
    LET seed_value == IF seed # NoSeedArg THEN seed ELSE randint(st, 0, 999999)
    IN  [seed_value |-> seed_value, rng |-> Drawn(random_seed(seed_value))]

\* NoiseGenerator.seed(seed)
noise_seed(ng, seed) == [seed_value |-> seed, rng |-> Drawn(random_seed(seed))]

\* World.get_spawn_position: (spawn_x, spawn_z), or NameError where the
\* module has no global named random
get_spawn_position(st, seed) ==
    IF "random" \notin WorldModuleGlobals
    THEN [exc |-> "NameError", x |-> 0, z |-> 0, rng |-> st]
    ELSE LET s0 == random_seed(seed)
             s1 == Drawn(s0)
         IN  [exc |-> "none",
              x   |-> randint(s0, -1000, 1000),
              z   |-> randint(s1, -1000, 1000),
              rng |-> NoiseGenerator(Drawn(s1), seed).rng]

\* what a cell of a column holds when generate never wrote it
Unwritten == "unwritten"

RECURSIVE AfterNoiseGenerators(_, _)
\* the global generator after n calls of NoiseGenerator() in a row
AfterNoiseGenerators(st, n) ==
    IF n = 0 THEN st
    ELSE IF n = 1 THEN NoiseGenerator(st, NoSeedArg).rng
    ELSE CHOOSE r \in
           { AfterNoiseGenerators(half, n - (n \div 2)) :
               half \in { AfterNoiseGenerators(st, n \div 2) } } : TRUE

\* the loop `for y in range(CHUNK_HEIGHT)` of Chunk.generate for one column:
\* the block type set_block stores at each height up to the first cell whose
\* type lookup raises; _get_block_type_at makes one NoiseGenerator() per cell,
\* which draws from the global generator
ColumnOf(x, z, height, st) ==
    CHOOSE r \in
      { [exc   |-> IF stop < FullHeight THEN _get_block_type_at(x, stop, z, height).exc
                   ELSE "none",
         cells |-> [y \in 1..FullHeight |->
                      IF y - 1 >= stop THEN Unwritten
                      ELSE IF _get_block_type_at(x, y - 1, z, height).val # "AIR"
                      THEN _get_block_type_at(x, y - 1, z, height).val
                      ELSE Unwritten],
         rng   |-> AfterNoiseGenerators(st, Min(stop + 1, FullHeight))] :
          stop \in { IF raising = { } THEN FullHeight
                     ELSE CHOOSE y \in raising : \A other \in raising : y <= other :
                       raising \in { { y \in 0..(FullHeight - 1) :
                                         _get_block_type_at(x, y, z, height).exc # "none" } } } } :
      TRUE

RECURSIVE ColumnsFrom(_, _, _)
\* the loops over x and z of Chunk.generate from the k-th column on
ColumnsFrom(pos, k, st) ==
    IF k >= CHUNK_WIDTH * CHUNK_DEPTH THEN [exc |-> "none", columns |-> << >>, rng |-> st]
    ELSE LET x == k \div CHUNK_DEPTH
             z == k % CHUNK_DEPTH
             w == to_world(pos, x, z)
             height == Max(0, Min(FullHeight - 1, get_height(w[1], w[2])))
         IN  CHOOSE r \in
               { IF col.exc # "none"
                 THEN [exc |-> col.exc, columns |-> << col.cells >>, rng |-> col.rng]
                 ELSE CHOOSE q \in
                        { [exc |-> rest.exc,
                           columns |-> << col.cells >> \o rest.columns,
                           rng |-> rest.rng] :
                            rest \in { ColumnsFrom(pos, k + 1, col.rng) } } : TRUE :
                   col \in { ColumnOf(x, z, height, st) } } :
               TRUE

\* Chunk(position, generate=True) at CHUNK_HEIGHT = 256: the columns in the
\* order x * CHUNK_DEPTH + z, and the global generator afterwards
generate_terrain(pos, st) ==
    ColumnsFrom(pos, 0, noise_seed(NoiseGenerator(st, NoSeedArg), GenerateSeed).rng)

(***************************************************************************)
(* Chunk persistence: a chunk file is a sequence of bytes                  *)
(***************************************************************************)
\* the names bound at module level in world/chunk.py (imports and
\* definitions); `import os` occurs only inside Chunk.save, where it binds a
\* local of save
ChunkModuleGlobals ==
    { "np", "Dict", "List", "Tuple", "Optional", "Set", "dataclass", "field",
      "ThreadPoolExecutor", "struct", "Block", "BlockType", "NoiseGenerator",
      "CHUNK_WIDTH", "CHUNK_HEIGHT", "CHUNK_DEPTH", "CHUNK_VOLUME",
      "ChunkPosition", "BlockData", "Chunk" }

\* struct.pack('H', v): two bytes, least significant first
PackU16(v) == << v % 256, v \div 256 >>

\* one int16 of ndarray.tobytes(): two's complement, least significant first
PackI16(v) == PackU16((v + 65536) % 65536)

\* one 'i' of struct.pack('ii', ..): 32-bit two's complement, least
\* significant byte first
PackI32(v) ==
    LET low == IF v >= 0 THEN v ELSE (2147483647 + v) + 1
        top == IF v >= 0 THEN 0 ELSE 128
    IN  << low % 256, (low \div 256) % 256, (low \div 65536) % 256,
           (low \div 16777216) + top >>

UnpackU16(b) == b[1] + 256 * b[2]

UnpackI16(b) == IF UnpackU16(b) >= 32768 THEN UnpackU16(b) - 65536 ELSE UnpackU16(b)

UnpackI32(b) ==
    LET low == b[1] + 256 * b[2] + 65536 * b[3] + 16777216 * (b[4] % 128)
    IN  IF b[4] >= 128 THEN (low - 2147483647) - 1 ELSE low

RECURSIVE Concat(_)
Concat(ss) == IF ss = << >> THEN << >> ELSE Head(ss) \o Concat(Tail(ss))

\* the bytes Chunk.save writes: header, (type, metadata) per cell in index
\* order, sky_light, block_light, height_map
SaveBytes(c) ==
    PackI32(c.position[1]) \o PackI32(c.position[2])
    \o Concat([k \in 1..CHUNK_VOLUME |-> PackU16(c.type[k - 1]) \o << c.metadata[k - 1] >>])
    \o [k \in 1..CHUNK_VOLUME |-> c.sky_light[k - 1]]
    \o [k \in 1..CHUNK_VOLUME |-> c.block_light[k - 1]]
    \o Concat([k \in 1..(CHUNK_WIDTH * CHUNK_DEPTH) |-> PackI16(c.height_map[k - 1])])

HeaderBytes == 8
CellBytes == 3
HeightBytes == 2
BlockSectionEnd == HeaderBytes + CellBytes * CHUNK_VOLUME
ExpectedFileLength == BlockSectionEnd + 2 * CHUNK_VOLUME + HeightBytes * CHUNK_WIDTH * CHUNK_DEPTH

NoFile == << -1 >>
NoChunk == [position |-> "None"]

\* f.read(n) at offset off (bytes already consumed): at most n bytes
ReadAt(f, off, n) == SubSeq(f, off + 1, Min(Len(f), off + n))

\* np.frombuffer(bytes, dtype=np.uint8)
FromBufferU8(b) == [i \in 0..(Len(b) - 1) |-> b[i + 1]]

\* np.frombuffer(bytes, dtype=np.int16) for an even number of bytes
FromBufferI16(b) == [i \in 0..((Len(b) \div 2) - 1) |-> UnpackI16(<< b[2 * i + 1], b[2 * i + 2] >>)]

\* the body of Chunk.load once the file is open
LoadBytes(position, f) ==
    LET fresh == EmptyChunk(position)
        cell(k) == ReadAt(f, HeaderBytes + CellBytes * k, CellBytes)
        sky == ReadAt(f, BlockSectionEnd, CHUNK_VOLUME)
        blk == ReadAt(f, BlockSectionEnd + CHUNK_VOLUME, CHUNK_VOLUME)
        hm == ReadAt(f, BlockSectionEnd + 2 * CHUNK_VOLUME, HeightBytes * CHUNK_WIDTH * CHUNK_DEPTH)
    IN  IF Len(ReadAt(f, 0, HeaderBytes)) < HeaderBytes
        THEN [exc |-> "struct.error", val |-> NoChunk]
        ELSE IF \E k \in Cells : Len(cell(k)) < CellBytes
        THEN [exc |-> "struct.error", val |-> NoChunk]
        ELSE IF Len(hm) % 2 # 0
        THEN [exc |-> "ValueError", val |-> NoChunk]
        ELSE [exc |-> "none",
              val |-> [fresh EXCEPT
                         !.type        = [i \in Cells |-> UnpackU16(cell(i))],
                         !.metadata    = [i \in Cells |-> cell(i)[3]],
                         !.sky_light   = FromBufferU8(sky),
                         !.block_light = FromBufferU8(blk),
                         !.height_map  = FromBufferI16(hm),
                         !.is_loaded   = TRUE,
                         !.is_dirty    = FALSE]]

\* Chunk.load: its first statement calls os.path.join, and `os` is no global
\* of the module
LoadWith(globals, position, f) ==
    IF "os" \notin globals THEN [exc |-> "NameError", val |-> NoChunk]
    ELSE IF f = NoFile THEN [exc |-> "none", val |-> NoChunk]
    ELSE LoadBytes(position, f)

ChunkLoadOsBound(position, f) == LoadWith(ChunkModuleGlobals \cup {"os"}, position, f)

chunk_load(position, f) == LoadWith(ChunkModuleGlobals, position, f)

(***************************************************************************)
(* Light Engine                                                            *)
(***************************************************************************)
\* LightEngine._get_neighbors, in its order
NeighborOffsets ==
    << << 0, 1, 0 >>, << 0, -1, 0 >>, << 1, 0, 0 >>,
       << -1, 0, 0 >>, << 0, 0, 1 >>, << 0, 0, -1 >> >>

SkyLightTop == 15

\* the cells in the order _recalculate_sky_light visits them: x, then z,
\* then y from the top down
SkyOrder ==
    [k \in 1..CHUNK_VOLUME |->
        << (k - 1) \div (CHUNK_DEPTH * CHUNK_HEIGHT),
           ((k - 1) \div CHUNK_HEIGHT) % CHUNK_DEPTH,
           (CHUNK_HEIGHT - 1) - ((k - 1) % CHUNK_HEIGHT) >>]

\* one iteration of the y loop of _recalculate_sky_light: the running light
\* after the block at (x, y, z)
SkyStep(c, light, x, y, z) ==
    LET g == chunk_get_block(c, x, y, z)
    IN  IF g.exc # "none" THEN [exc |-> g.exc, light |-> light]
        ELSE IF g.val = None THEN [exc |-> "none", light |-> light]
        ELSE IF is_opaque(g.val).exc # "none"
        THEN [exc |-> is_opaque(g.val).exc, light |-> light]
        ELSE IF is_opaque(g.val).val THEN [exc |-> "none", light |-> 0]
        ELSE IF is_transparent(g.val).exc # "none"
        THEN [exc |-> is_transparent(g.val).exc, light |-> light]
        ELSE IF is_transparent(g.val).val
        THEN [exc |-> "none", light |-> Max(0, light - 1)]
        ELSE [exc |-> "none", light |-> Max(0, light - 2)]

RECURSIVE SkyFrom(_, _, _)
\* the loops of _recalculate_sky_light from the k-th cell on
SkyFrom(c, k, light) ==
    IF k > CHUNK_VOLUME THEN [exc |-> "none", c |-> c]
    ELSE LET x == SkyOrder[k][1]
             z == SkyOrder[k][2]
             y == SkyOrder[k][3]
             st == SkyStep(c, IF y = CHUNK_HEIGHT - 1 THEN SkyLightTop ELSE light, x, y, z)
         IN  IF st.exc # "none" THEN [exc |-> st.exc, c |-> c]
             ELSE SkyFrom([c EXCEPT !.sky_light[_get_index(x, y, z)] = st.light], k + 1, st.light)

\* LightEngine._recalculate_sky_light
_recalculate_sky_light(c) == SkyFrom(c, 1, SkyLightTop)

RECURSIVE Bfs(_, _, _)
\* the while loop of LightEngine._set_block_light
Bfs(c, queue, visited) ==
    IF queue = << >> THEN [exc |-> "none", c |-> c]
    ELSE LET e == Head(queue)
             rest == Tail(queue)
             cell == << e[1], e[2], e[3] >>
             level == e[4]
             seen == visited \cup {cell}
             g == chunk_get_block(c, e[1], e[2], e[3])
             index == _get_index(e[1], e[2], e[3])
         IN  IF cell \in visited THEN Bfs(c, rest, visited)
             ELSE IF ~InBounds(e[1], e[2], e[3]) THEN Bfs(c, rest, seen)
             ELSE IF g.exc # "none" THEN [exc |-> g.exc, c |-> c]
             ELSE IF g.val # None /\ is_transparent(g.val).exc # "none"
             THEN [exc |-> is_transparent(g.val).exc, c |-> c]
             ELSE IF g.val # None /\ ~is_transparent(g.val).val THEN Bfs(c, rest, seen)
             ELSE IF level <= c.block_light[index] THEN Bfs(c, rest, seen)
             ELSE Bfs([c EXCEPT !.block_light[index] = level],
                      IF level > 1
                      THEN rest \o [n \in 1..6 |->
                                      << e[1] + NeighborOffsets[n][1],
                                         e[2] + NeighborOffsets[n][2],
                                         e[3] + NeighborOffsets[n][3],
                                         level - 1 >>]
                      ELSE rest,
                      seen)

\* LightEngine._set_block_light
_set_block_light(c, x, y, z, light) ==
    IF light <= 0 THEN [exc |-> "none", c |-> c]
    ELSE Bfs(c, << << x, y, z, light >> >>, {})

\* the cells in the order _recalculate_block_light visits them: x, y, z
BlockLightOrder ==
    [k \in 1..CHUNK_VOLUME |->
        << (k - 1) \div (CHUNK_HEIGHT * CHUNK_DEPTH),
           ((k - 1) \div CHUNK_DEPTH) % CHUNK_HEIGHT,
           (k - 1) % CHUNK_DEPTH >>]

RECURSIVE BlockLightFrom(_, _)
\* the loops of _recalculate_block_light from the k-th cell on
BlockLightFrom(c, k) ==
    IF k > CHUNK_VOLUME THEN [exc |-> "none", c |-> c]
    ELSE LET x == BlockLightOrder[k][1]
             y == BlockLightOrder[k][2]
             z == BlockLightOrder[k][3]
             g == chunk_get_block(c, x, y, z)
             em == get_light_emission(g.val)
             lit == _set_block_light(c, x, y, z, em.val)
         IN  IF g.exc # "none" THEN [exc |-> g.exc, c |-> c]
             ELSE IF g.val = None THEN BlockLightFrom(c, k + 1)
             ELSE IF em.exc # "none" THEN [exc |-> em.exc, c |-> c]
             ELSE IF em.val <= 0 THEN BlockLightFrom(c, k + 1)
             ELSE IF lit.exc # "none" THEN lit
             ELSE BlockLightFrom(lit.c, k + 1)

\* LightEngine._recalculate_block_light
_recalculate_block_light(c) ==
    BlockLightFrom([c EXCEPT !.block_light = [i \in Cells |-> 0]], 1)

\* LightEngine.update_chunk
update_chunk(c) ==
    LET sky == _recalculate_sky_light(c)
    IN  IF sky.exc # "none" THEN sky ELSE _recalculate_block_light(sky.c)

\* the greatest block_light among the in-bounds neighbours of (x, y, z)
MaxNeighborBlockLight(c, x, y, z) ==
    LET lights == { c.block_light[_get_index(x + NeighborOffsets[n][1],
                                             y + NeighborOffsets[n][2],
                                             z + NeighborOffsets[n][3])] :
                      n \in { m \in 1..6 : InBounds(x + NeighborOffsets[m][1],
                                                    y + NeighborOffsets[m][2],
                                                    z + NeighborOffsets[m][3]) } }
    IN  IF lights = {} THEN 0 ELSE CHOOSE l \in lights : \A l2 \in lights : l2 <= l

\* the recursive calls _spread_light makes after raising a cell, in order
SpreadCalls(x, y, z) ==
    << << x, y, z + 1 >>, << x, y, z - 1 >>, << x + 1, y, z >>, << x - 1, y, z >> >>
    \o (IF y < CHUNK_HEIGHT - 1 THEN << << x, y + 1, z >> >> ELSE << >>)
    \o (IF y > 0 THEN << << x, y - 1, z >> >> ELSE << >>)

RECURSIVE Spread(_, _)
\* LightEngine._spread_light on each cell of `todo` in turn; a cell that is
\* raised runs its recursive calls before the rest (depth first)
Spread(c, todo) ==
    IF todo = << >> THEN [exc |-> "none", c |-> c]
    ELSE LET x == Head(todo)[1]
             y == Head(todo)[2]
             z == Head(todo)[3]
             rest == Tail(todo)
             g == chunk_get_block(c, x, y, z)
             index == _get_index(x, y, z)
             new_light == Max(0, MaxNeighborBlockLight(c, x, y, z) - 1)
         IN  IF ~InBounds(x, y, z) THEN Spread(c, rest)
             ELSE IF g.exc # "none" THEN [exc |-> g.exc, c |-> c]
             ELSE IF g.val # None /\ is_transparent(g.val).exc # "none"
             THEN [exc |-> is_transparent(g.val).exc, c |-> c]
             ELSE IF g.val # None /\ ~is_transparent(g.val).val THEN Spread(c, rest)
             ELSE IF new_light > c.block_light[index]
             THEN Spread([c EXCEPT !.block_light[index] = new_light],
                         SpreadCalls(x, y, z) \o rest)
             ELSE Spread(c, rest)

\* LightEngine._spread_light
_spread_light(c, x, y, z) == Spread(c, << << x, y, z >> >>)

\* LightEngine._propagate_light: _spread_light on each in-bounds neighbour
_propagate_light(c, x, y, z) ==
    Spread(c, SelectSeq([n \in 1..6 |-> << x + NeighborOffsets[n][1],
                                           y + NeighborOffsets[n][2],
                                           z + NeighborOffsets[n][3] >>],
                        LAMBDA p : InBounds(p[1], p[2], p[3])))

\* LightEngine._update_after_block_change
_update_after_block_change(c, x, y, z) ==
    LET g == chunk_get_block(c, x, y, z)
        index == _get_index(x, y, z)
    IN  IF g.exc # "none" THEN [exc |-> g.exc, c |-> c]
        ELSE IF g.val = None THEN [exc |-> "none", c |-> c]
        ELSE IF is_transparent(g.val).exc # "none"
        THEN [exc |-> is_transparent(g.val).exc, c |-> c]
        ELSE IF is_transparent(g.val).val THEN [exc |-> "none", c |-> c]
        ELSE IF c.block_light[index] <= 0 THEN [exc |-> "none", c |-> c]
        ELSE IF get_light_emission(g.val).exc # "none"
        THEN [exc |-> get_light_emission(g.val).exc, c |-> c]
        ELSE IF get_light_emission(g.val).val # 0 THEN [exc |-> "none", c |-> c]
        ELSE _spread_light([c EXCEPT !.block_light[index] = 0], x, y, z)

\* LightEngine.update_block
update_block(c, x, y, z) ==
    LET g == chunk_get_block(c, x, y, z)
    IN  IF g.exc # "none" THEN [exc |-> g.exc, c |-> c]
        ELSE IF g.val = None THEN _propagate_light(c, x, y, z)
        ELSE _update_after_block_change(c, x, y, z)

\* LightEngine.get_combined_light
get_combined_light(c, x, y, z) ==
    IF ~InBounds(x, y, z) THEN 0
    ELSE Max(c.sky_light[_get_index(x, y, z)], c.block_light[_get_index(x, y, z)])

\* the greatest combined light among the in-bounds neighbours of (x, y, z)
MaxNeighborCombinedLight(c, x, y, z) ==
    LET lights == { get_combined_light(c, x + NeighborOffsets[n][1],
                                          y + NeighborOffsets[n][2],
                                          z + NeighborOffsets[n][3]) :
                      n \in { m \in 1..6 : InBounds(x + NeighborOffsets[m][1],
                                                    y + NeighborOffsets[m][2],
                                                    z + NeighborOffsets[m][3]) } }
    IN  IF lights = {} THEN 0 ELSE CHOOSE l \in lights : \A l2 \in lights : l2 <= l

(***************************************************************************)
(* World: the pure parts                                                   *)
(***************************************************************************)
\* the threads that call into one World object
Threads == { "t1", "t2" }
NoThread == "free"

\* ChunkPosition.from_world
from_world(world_x, world_z) == << world_x \div CHUNK_WIDTH, world_z \div CHUNK_DEPTH >>

\* the world coordinates of the explored calls: both x edges of chunk 0
WorldX == { 0, CHUNK_WIDTH - 1 }
WorldY == 0..(CHUNK_HEIGHT - 1)
WorldZ == { 0 }
WorldBlocks == { "AIR", "STONE" }
WorldOps == { "get_block", "set_block", "get_height_at", "_generate_chunk" }

Targets == { from_world(x, z) : x \in WorldX, z \in WorldZ }
Positions ==
    Targets \cup { << p[1] + d[1], p[2] + d[2] >> :
                     p \in Targets, d \in { << -1, 0 >>, << 1, 0 >>, << 0, -1 >>, << 0, 1 >> } }

\* a _generate_chunk whose `generate` would default to False
GenerateOff == FALSE

\* the default of the parameter `generate` of World._generate_chunk, which no
\* caller overrides
GenerateDefault == TRUE

\* World._load_chunk: None when there is no file, and when Chunk.load raises
_load_chunk(position, f) ==
    IF f = NoFile THEN NoChunk
    ELSE IF chunk_load(position, f).exc # "none" THEN NoChunk
    ELSE chunk_load(position, f).val

\* the local coordinates World.get_chunk_at, get_block and set_block compute
LocalX(world_x, pos) == world_x - pos[1] * CHUNK_WIDTH
LocalZ(world_z, pos) == world_z - pos[2] * CHUNK_DEPTH

\* the neighbour positions World.set_block asks for after an edit on an edge
EdgeNeighbors(pos, local_x, local_z) ==
    (IF local_x = 0 THEN << << pos[1] - 1, pos[2] >> >>
     ELSE IF local_x = CHUNK_WIDTH - 1 THEN << << pos[1] + 1, pos[2] >> >>
     ELSE << >>)
    \o
    (IF local_z = 0 THEN << << pos[1], pos[2] - 1 >> >>
     ELSE IF local_z = CHUNK_DEPTH - 1 THEN << << pos[1], pos[2] + 1 >> >>
     ELSE << >>)

NoPos == << >>

\* a thread outside any World call
IdleThread ==
    [ pc      |-> "idle",     \* the call the thread is executing
      op      |-> "none",     \* the World method it was asked for
      x       |-> 0, y |-> 0, z |-> 0, b |-> "AIR",
      home    |-> NoPos,      \* the position of the chunk the call is about
      pos     |-> NoPos,      \* the position _generate_chunk was called with
      local_x |-> -1, local_z |-> -1,
      todo    |-> << >>,      \* the neighbour positions still to ask for
      chunk   |-> NoChunk,    \* the Chunk under construction, not yet in the map
      missed  |-> FALSE,      \* get_chunk_at found no chunk for `home`
      obj     |-> 0,          \* which Chunk object of `home` the call obtained
      newObj  |-> 0,          \* which Chunk object of `pos` the call constructed
      nochunk |-> FALSE,      \* the call returned because _generate_chunk gave None
      raisedIn |-> "none",    \* the call that raised `exc`
      removed |-> FALSE,      \* the edit replaced an opaque block by air
      after   |-> 0,          \* combined light of the edited cell after update_block
      around  |-> 0,          \* greatest combined light of its neighbours then
      exc     |-> "none",     \* the exception that ended the call
      val     |-> "none" ]    \* what the call returned

\* the call ends by raising e, out of the call rec.pc names
Raised(rec, e) == [rec EXCEPT !.pc = "done", !.exc = e, !.raisedIn = rec.pc, !.chunk = NoChunk]

\* the call returns v
Returned(rec, v) == [rec EXCEPT !.pc = "done", !.val = v, !.chunk = NoChunk]

\* World.set_block after update_block: the next neighbour, or return True
NextNeighbor(rec) ==
    IF rec.todo = << >> THEN Returned(rec, TRUE)
    ELSE [rec EXCEPT !.pc = "acquire", !.pos = Head(rec.todo), !.todo = Tail(rec.todo)]

\* the caller of _generate_chunk once it has returned: `got` says the result
\* is a chunk, `objId` which object
AfterGenerate(rec, got, objId) ==
    IF rec.pos # rec.home THEN NextNeighbor(rec)
    ELSE IF rec.op = "_generate_chunk"
    THEN Returned([rec EXCEPT !.obj = objId], IF got THEN "chunk" ELSE None)
    ELSE IF ~got
    THEN Returned([rec EXCEPT !.nochunk = TRUE],
                  CASE rec.op = "get_block" -> None
                    [] rec.op = "set_block" -> FALSE
                    [] OTHER -> 64)
    ELSE CASE rec.op = "get_block" ->
                [rec EXCEPT !.pc = "body", !.obj = objId,
                            !.local_x = LocalX(rec.x, rec.home),
                            !.local_z = LocalZ(rec.z, rec.home)]
           [] rec.op = "set_block" ->
                [rec EXCEPT !.pc = "chunk.set_block", !.obj = objId,
                            !.local_x = LocalX(rec.x, rec.home),
                            !.local_z = LocalZ(rec.z, rec.home)]
           [] OTHER -> [rec EXCEPT !.pc = "body", !.obj = objId]

\* a with block that would not wait for the holder of the lock
LockAlwaysFree(l) == TRUE

\* the lock of `with self._generation_lock` can be taken
CanAcquire(l) == l = NoThread

\* an insertion that would not wait for Chunk.generate to end
PublishEarly(pc) == pc \in { "Chunk.generate", "generated" }

\* the statement of _generate_chunk that follows the construction of the
\* chunk is the insertion into the map
PublishPoint(pc) == pc = "generated"

\* World.save_chunk: Chunk.save of the chunk at the position, if the map has
\* one; st holds the chunk files and the record of the saves made
save_chunk(chs, st, p) ==
    IF chs[p] # NoChunk
    THEN [disk   |-> [st.disk EXCEPT ![p] = SaveBytes(chs[p])],
          writes |-> st.writes \cup { [pos |-> p, modified |-> chs[p].is_modified] }]
    ELSE st

RECURSIVE SaveAllOver(_, _, _)
\* the loop of World.save_all over the positions ps still to visit
SaveAllOver(chs, st, ps) ==
    IF ps = { } THEN st
    ELSE LET p == CHOOSE q \in ps : TRUE
         IN  SaveAllOver(chs,
                         IF chs[p].is_modified THEN save_chunk(chs, st, p) ELSE st,
                         ps \ { p })

\* World.save_all
save_all(chs, st) == SaveAllOver(chs, st, { p \in DOMAIN chs : chs[p] # NoChunk })

(***************************************************************************)
(* World.update.  delta_time is counted in half seconds, time_of_day in    *)
(* ticks, the two intensities in twentieths: delta_time * 20 is 10 ticks   *)
(* and delta_time * 0.1 one twentieth per half second.                     *)
(***************************************************************************)
\* the time and weather fields as World.__init__ sets them
InitialClock ==
    [ time_of_day       |-> 6000,
      is_day            |-> TRUE,
      is_raining        |-> FALSE,
      rain_intensity    |-> 0,
      is_thundering     |-> FALSE,
      thunder_intensity |-> 0 ]

\* an update that lets time_of_day run past the day
UpdateWithoutWrap(w, delta_time) ==
    [w EXCEPT !.time_of_day = @ + delta_time * 10]

\* World.update(delta_time); _tick_random_blocks calls Chunk.tick, which is
\* `pass`, and update_callbacks is empty
update(w, delta_time) ==
    LET time_of_day == (w.time_of_day + delta_time * 10) % 24000
    IN  [w EXCEPT
           !.time_of_day       = time_of_day,
           !.is_day            = 0 <= time_of_day /\ time_of_day < 12000,
           !.rain_intensity    = IF w.is_raining THEN Min(20, @ + delta_time)
                                 ELSE Max(0, @ - delta_time),
           !.thunder_intensity = IF w.is_thundering THEN Min(20, @ + delta_time)
                                 ELSE Max(0, @ - delta_time)]

(***************************************************************************)
(* Greedy meshing (engine/mesh.py).  A voxel array is a function from      *)
(* <<x, y, z>> to the uint8 values WorldGenerator.generate_chunk_data      *)
(* stores; a quad is what one call of add_quad receives.                   *)
(***************************************************************************)
\* voxels.shape
dims == << DimX, DimY, DimZ >>

VoxelCells == (0..(DimX - 1)) \X (0..(DimY - 1)) \X (0..(DimZ - 1))

\* ChunkMesh.get_voxel
get_voxel(voxels, x, y, z) ==
    IF 0 <= x /\ x < dims[1] /\ 0 <= y /\ y < dims[2] /\ 0 <= z /\ z < dims[3]
    THEN voxels[<< x, y, z >>]
    ELSE 0

\* -b for a numpy uint8 scalar b: the negation wraps modulo 256
NegUint8(b) == (256 - b) % 256

\* the list x of generate_mesh with x[d] = xd, x[u] = xu, x[v] = xv
AxisPoint(d, xd, xu, xv) ==
    LET u == (d + 1) % 3
        at(k) == IF k = d THEN xd ELSE IF k = u THEN xu ELSE xv
    IN  << at(0), at(1), at(2) >>

\* the entry mask[n] generate_mesh computes for the slice x[d] = xd
MaskEntry(voxels, d, xd, n) ==
    LET u == (d + 1) % 3
        p == AxisPoint(d, xd, n % dims[u + 1], n \div dims[u + 1])
        q == AxisPoint(d, 1, 0, 0)
        a == get_voxel(voxels, p[1], p[2], p[3])
        b == get_voxel(voxels, p[1] + q[1], p[2] + q[2], p[3] + q[3])
    IN  IF (a # 0) = (b # 0) THEN 0
        ELSE IF a # 0 THEN a
        ELSE NegUint8(b)

RECURSIVE ComputeMask(_, _, _, _)
\* "Compute mask": the entries n, n+1, ... of the slice, mask[n] at index n+1
ComputeMask(voxels, d, xd, n) ==
    IF n >= dims[((d + 1) % 3) + 1] * dims[((d + 2) % 3) + 1] THEN << >>
    ELSE << MaskEntry(voxels, d, xd, n) >> \o ComputeMask(voxels, d, xd, n + 1)

\* a width search that stops at the first cell
WidthOfOne(mask, du, n, i, val, w) == w

RECURSIVE FindWidth(_, _, _, _, _, _)
\* "Find width": the while loop from the current w
FindWidth(mask, du, n, i, val, w) ==
    IF i + w < du /\ mask[n + w + 1] = val
    THEN FindWidth(mask, du, n, i, val, w + 1)
    ELSE w

RECURSIVE FindHeight(_, _, _, _, _, _, _, _)
\* "Find height": the while loop from the current h
FindHeight(mask, du, dv, n, j, val, w, h) ==
    IF j + h < dv /\ \A k \in 0..(w - 1) : mask[n + k + h * du + 1] = val
    THEN FindHeight(mask, du, dv, n, j, val, w, h + 1)
    ELSE h

\* a clearing that zeroes only the first row of the block
ZeroOutFirstRow(mask, du, n, w, h, m) ==
    [k \in 1..Len(mask) |-> IF \E i \in 0..(w - 1) : k = n + i + 1 THEN 0 ELSE mask[k]]

RECURSIVE ZeroOut(_, _, _, _, _, _)
\* "Zero out mask": the entries m, m+1, ... after the w by h block at n is cleared
ZeroOut(mask, du, n, w, h, m) ==
    IF m > Len(mask) THEN << >>
    ELSE << IF \E l \in 0..(h - 1), k \in 0..(w - 1) : m = n + k + l * du + 1
            THEN 0 ELSE mask[m] >>
         \o ZeroOut(mask, du, n, w, h, m + 1)

\* the arguments of the add_quad call for the mask entry n
QuadAt(d, xd, du, n, val, w, h) ==
    [ d   |-> d,
      x   |-> AxisPoint(d, xd, n % du, n \div du),
      du  |-> AxisPoint(d, 0, w, 0),
      dv  |-> AxisPoint(d, 0, 0, h),
      val |-> val ]

\* ChunkMesh.add_quad: the block id and the shading, in tenths, it gives
\* the quad of value val on axis d
add_quad(val, d) ==
    [ block_id |-> IF val < 0 THEN -val ELSE val,
      shading  |-> IF d = 1 THEN (IF val > 0 THEN 10 ELSE 5)
                   ELSE IF d = 0 THEN 8
                   ELSE 6 ]

RECURSIVE MeshFromMask(_, _, _, _, _)
\* "Generate mesh from mask": the entries n, n+1, ... of one slice
MeshFromMask(mask, d, xd, n, quads) ==
    LET du == dims[((d + 1) % 3) + 1]
        dv == dims[((d + 2) % 3) + 1]
    IN  IF n >= du * dv THEN quads
        ELSE IF mask[n + 1] = 0 THEN MeshFromMask(mask, d, xd, n + 1, quads)
        ELSE CHOOSE r \in
               { MeshFromMask(m, d, xd, n + 1, qs) :
                   m \in { ZeroOut(mask, du, n, w, h, 1) :
                             w \in { FindWidth(mask, du, n, n % du, mask[n + 1], 1) },
                             h \in { FindHeight(mask, du, dv, n, n \div du, mask[n + 1],
                                                FindWidth(mask, du, n, n % du, mask[n + 1], 1), 1) } },
                   qs \in { Append(quads,
                                   QuadAt(d, xd, du, n, mask[n + 1],
                                          FindWidth(mask, du, n, n % du, mask[n + 1], 1),
                                          FindHeight(mask, du, dv, n, n \div du, mask[n + 1],
                                                     FindWidth(mask, du, n, n % du, mask[n + 1], 1), 1))) } } :
               TRUE

RECURSIVE MeshSlices(_, _, _, _)
\* the loop `for x[d] in range(-1, dims[d])` from xd on
MeshSlices(voxels, d, xd, quads) ==
    IF xd >= dims[d + 1] THEN quads
    ELSE CHOOSE r \in
           { MeshSlices(voxels, d, xd + 1, qs) :
               qs \in { MeshFromMask(mask, d, xd, 0, quads) :
                          mask \in { ComputeMask(voxels, d, xd, 0) } } } :
           TRUE

\* ChunkMesh.generate_mesh: the add_quad calls in order, 6 vertices each
generate_mesh(voxels) ==
    CHOOSE r \in
      { MeshSlices(voxels, 2, -1, q1) :
          q1 \in { MeshSlices(voxels, 1, -1, q0) :
                     q0 \in { MeshSlices(voxels, 0, -1, << >>) } } } :
      TRUE

(***************************************************************************)
(* Light propagation, one loop iteration or one call at a time.            *)
(***************************************************************************)
\* one iteration of the while loop of LightEngine._set_block_light
BfsStep(c, queue, visited) ==
    LET e == Head(queue)
        rest == Tail(queue)
        cell == << e[1], e[2], e[3] >>
        level == e[4]
        seen == visited \cup {cell}
        g == chunk_get_block(c, e[1], e[2], e[3])
        index == _get_index(e[1], e[2], e[3])
        skip(v) == [exc |-> "none", c |-> c, queue |-> rest, visited |-> v]
        raise(exc) == [exc |-> exc, c |-> c, queue |-> queue, visited |-> seen]
    IN  IF cell \in visited THEN skip(visited)
        ELSE IF ~InBounds(e[1], e[2], e[3]) THEN skip(seen)
        ELSE IF g.exc # "none" THEN raise(g.exc)
        ELSE IF g.val # None /\ is_transparent(g.val).exc # "none"
        THEN raise(is_transparent(g.val).exc)
        ELSE IF g.val # None /\ ~is_transparent(g.val).val THEN skip(seen)
        ELSE IF level <= c.block_light[index] THEN skip(seen)
        ELSE [exc     |-> "none",
              c       |-> [c EXCEPT !.block_light[index] = level],
              queue   |-> IF level > 1
                          THEN rest \o [n \in 1..6 |->
                                          << e[1] + NeighborOffsets[n][1],
                                             e[2] + NeighborOffsets[n][2],
                                             e[3] + NeighborOffsets[n][3],
                                             level - 1 >>]
                          ELSE rest,
              visited |-> seen]

\* a _spread_light that also writes a cell whose value does not change
SpreadStepRewrites(c, todo) ==
    LET x == Head(todo)[1]
        y == Head(todo)[2]
        z == Head(todo)[3]
        index == _get_index(x, y, z)
    IN  IF ~InBounds(x, y, z) THEN [exc |-> "none", c |-> c, todo |-> Tail(todo)]
        ELSE [exc  |-> "none",
              c    |-> [c EXCEPT !.block_light[index] =
                                    Max(0, MaxNeighborBlockLight(c, x, y, z) - 1)],
              todo |-> Tail(todo)]

\* one call of LightEngine._spread_light, the first of the pending calls
\* `todo`: up to its recursive calls, which become the next pending calls
SpreadStep(c, todo) ==
    LET x == Head(todo)[1]
        y == Head(todo)[2]
        z == Head(todo)[3]
        rest == Tail(todo)
        g == chunk_get_block(c, x, y, z)
        index == _get_index(x, y, z)
        new_light == Max(0, MaxNeighborBlockLight(c, x, y, z) - 1)
        return == [exc |-> "none", c |-> c, todo |-> rest]
    IN  IF ~InBounds(x, y, z) THEN return
        ELSE IF g.exc # "none" THEN [exc |-> g.exc, c |-> c, todo |-> todo]
        ELSE IF g.val # None /\ is_transparent(g.val).exc # "none"
        THEN [exc |-> is_transparent(g.val).exc, c |-> c, todo |-> todo]
        ELSE IF g.val # None /\ ~is_transparent(g.val).val THEN return
        ELSE IF new_light > c.block_light[index]
        THEN [exc  |-> "none",
              c    |-> [c EXCEPT !.block_light[index] = new_light],
              todo |-> SpreadCalls(x, y, z) \o rest]
        ELSE return

\* LightEngine.update_block up to its first _spread_light call: the chunk
\* and the pending _spread_light calls
update_block_begin(c, x, y, z) ==
    LET g == chunk_get_block(c, x, y, z)
        index == _get_index(x, y, z)
        return == [exc |-> "none", c |-> c, todo |-> << >>]
        raise(exc) == [exc |-> exc, c |-> c, todo |-> << >>]
    IN  IF g.exc # "none" THEN raise(g.exc)
        ELSE IF g.val = None
        THEN [exc |-> "none", c |-> c,
              todo |-> SelectSeq([n \in 1..6 |-> << x + NeighborOffsets[n][1],
                                                    y + NeighborOffsets[n][2],
                                                    z + NeighborOffsets[n][3] >>],
                                 LAMBDA p : InBounds(p[1], p[2], p[3]))]
        ELSE IF is_transparent(g.val).exc # "none" THEN raise(is_transparent(g.val).exc)
        ELSE IF is_transparent(g.val).val THEN return
        ELSE IF c.block_light[index] <= 0 THEN return
        ELSE IF get_light_emission(g.val).exc # "none"
        THEN raise(get_light_emission(g.val).exc)
        ELSE IF get_light_emission(g.val).val # 0 THEN return
        ELSE [exc |-> "none", c |-> [c EXCEPT !.block_light[index] = 0],
              todo |-> << << x, y, z >> >>]

\* engine/lighting.py: the directions of bfs_propagate, in its order
Directions ==
    << << 1, 0, 0 >>, << -1, 0, 0 >>, << 0, 1, 0 >>,
       << 0, -1, 0 >>, << 0, 0, 1 >>, << 0, 0, -1 >> >>

\* engine/lighting.py propagate_sunlight up to its bfs_propagate call: every
\* air cell above the topmost block of its column is set to 15 and queued,
\* columns in x, z order, cells from the top down
propagate_sunlight(vox, light_map) ==
    LET open(x, y, z) == \A yy \in y..(dims[2] - 1) : vox[<< x, yy, z >>] = 0
        order == [k \in 1..(dims[1] * dims[2] * dims[3]) |->
                    << (k - 1) \div (dims[3] * dims[2]),
                       (dims[2] - 1) - ((k - 1) % dims[2]),
                       ((k - 1) \div dims[2]) % dims[3] >>]
    IN  [ light_map |-> [p \in VoxelCells |->
                           IF open(p[1], p[2], p[3]) THEN 15 ELSE light_map[p]],
          queue     |-> SelectSeq(order, LAMBDA p : open(p[1], p[2], p[3])) ]

\* one iteration of the while loop of engine/lighting.py bfs_propagate
bfs_propagate(vox, light_map, queue) ==
    LET p == Head(queue)
        curr_light == light_map[p]
        at(n) == << p[1] + Directions[n][1], p[2] + Directions[n][2], p[3] + Directions[n][3] >>
        raised(n) == /\ at(n) \in VoxelCells
                     /\ vox[at(n)] = 0
                     /\ light_map[at(n)] < curr_light - 1
    IN  IF curr_light <= 1 THEN [light_map |-> light_map, queue |-> Tail(queue)]
        ELSE [ light_map |-> [q \in VoxelCells |->
                                IF \E n \in 1..6 : raised(n) /\ at(n) = q
                                THEN curr_light - 1 ELSE light_map[q]],
               queue     |-> Tail(queue) \o
                             SelectSeq([n \in 1..6 |-> at(n)],
                                       LAMBDA q : \E n \in 1..6 : raised(n) /\ at(n) = q) ]

(***************************************************************************)
(* State                                                                   *)
(***************************************************************************)
VARIABLES
    chunk,      \* the Chunk object under test
    edits,      \* number of Chunk.set_block calls made on it
    cpc,        \* its stage: "live", "saved", "loaded"
    file,       \* the bytes of its chunk file, NoFile while there is none
    loaded,     \* what Chunk.load returned or raised
    lightOp,    \* the last Light Engine call on it since its last edit, and how it ended
    chunks,     \* World.chunks: position -> Chunk, NoChunk where the key is absent
    lock,       \* the holder of World._generation_lock
    thr,        \* what each thread is doing
    disk,       \* the chunk files under World.save_path
    calls,      \* number of World calls started
    hist,       \* per position: constructions, insertions, the object in the map
    writes,     \* the Chunk.save calls World made: position, and is_modified then
    voxels,     \* ChunkMesh.voxels
    mesh,       \* whether generate_mesh ran on voxels, and the quads it emitted
    placed,     \* number of writes made into voxels
    rng,        \* the state of the random module's global generator
    world,      \* per World construction: its seed and how get_spawn_position ended
    terrain,    \* per World and chunk position: the columns Chunk.generate wrote
    last,       \* the last call made on the Chunk under test, and how it ended
    clock,      \* the time and weather fields of the World
    ticks,      \* the World.update calls made: their number, the last and the summed delta_time
    pool,       \* World.executor: its tasks, and how far World.cleanup has got
    block,      \* the Block under test and what its predicates returned or raised
    prop,       \* the light propagation in progress: its engine, queue or pending calls, and how it ended
    ticked,     \* world.chunks as the keys in insertion order, and the chunks whose tick() ran
    meshed      \* the chunk content the last build_mesh call that returned has meshed

chunkVars == << chunk, edits, cpc, file, loaded, lightOp, last >>
worldVars == << chunks, lock, thr, disk, calls, hist, writes >>
meshVars == << voxels, mesh, placed >>
seedVars == << rng, world, terrain >>
timeVars == << clock, ticks >>
vars == << chunkVars, worldVars, meshVars, seedVars, timeVars, pool, block, prop, ticked, meshed >>

\* what the calls on one component leave alone
outsideChunk == << worldVars, meshVars, seedVars, timeVars, pool, block, prop, ticked, meshed >>
outsideWorld == << chunkVars, meshVars, seedVars, timeVars, pool, block, prop, ticked, meshed >>
outsideMesh == << chunkVars, worldVars, seedVars, timeVars, pool, block, prop, ticked, meshed >>
outsideSeeds == << chunkVars, worldVars, meshVars, timeVars, pool, block, prop, ticked, meshed >>
outsideTime == << chunkVars, worldVars, meshVars, seedVars, pool, block, prop, ticked, meshed >>
outsidePool == << chunkVars, worldVars, meshVars, seedVars, timeVars, block, prop, ticked, meshed >>
outsideBlock == << chunkVars, worldVars, meshVars, seedVars, timeVars, pool, prop, ticked, meshed >>
outsideProp == << chunkVars, worldVars, meshVars, seedVars, timeVars, pool, block, ticked, meshed >>

TestPosition == << 0, -1 >>

\* the Block arguments of the explored set_block calls
InputBlocks == { Block("AIR", 0), Block("STONE", 0), Block("TORCH", 5), Block("WATER", 0) }

XIn == -1..CHUNK_WIDTH
YIn == -1..CHUNK_HEIGHT
ZIn == -1..CHUNK_DEPTH

NotLoaded == [exc |-> "not called", val |-> NoChunk]
NoLightOp == [op |-> "none", exc |-> "none"]
NoCall == [op |-> "none", x |-> 0, y |-> 0, z |-> 0, exc |-> "none", none |-> FALSE, ret |-> 0]

NoHistory ==
    [ made     |-> [p \in Positions |-> 0],
      inserted |-> [p \in Positions |-> 0],
      mapObj   |-> [p \in Positions |-> 0] ]

\* no build_mesh call has returned yet
NeverMeshed == [built |-> FALSE, content |-> << >>]

\* what a mesh is built from: the block and light arrays of the chunk
Content(c) == << c.type, c.metadata, c.sky_light, c.block_light >>

\* no World.update call yet
NoTicks == [updates |-> 0, delta_time |-> 0, elapsed |-> 0]

\* no chunk in world.chunks, no tick() call yet
NoTicked == [map |-> << >>, done |-> { }, last |-> << >>]

\* the number of chunks of `list(self.chunks.values())[:10]`
TickedPerUpdate == 10

\* World._tick_random_blocks: chunk.tick() for the first ten values of the
\* dictionary, which Python lists in insertion order; Chunk.tick is `pass`,
\* so the record of the calls is all that changes
_tick_random_blocks(t) ==
    LET called == SubSeq(t.map, 1, IF Len(t.map) < TickedPerUpdate THEN Len(t.map) ELSE TickedPerUpdate)
    IN  [t EXCEPT !.done = @ \cup { called[i] : i \in 1..Len(called) }, !.last = called]

\* the tasks a collaborator hands to World.executor
Tasks == 1..MaxTasks

\* ThreadPoolExecutor(max_workers=4): no task yet; World.cleanup not called
NewPool ==
    [ task      |-> [k \in Tasks |-> "none"],
      cleanup   |-> "not called",
      unfinished |-> { } ]

\* no predicate of the Block was called
NotCalled == [exc |-> "not called", val |-> FALSE]

\* no Block was constructed
NoBlock == [made |-> FALSE, b |-> None, is_opaque |-> NotCalled, is_transparent |-> NotCalled]

\* no LightEngine was constructed, nothing propagates
NoProp ==
    [ engine    |-> "none",
      status    |-> "idle",
      algo      |-> "none",
      queue     |-> << >>,
      visited   |-> { },
      light_map |-> [p \in VoxelCells |-> 0],
      runs      |-> 0 ]

\* World.__init__ up to the call of _init_world: no chunk, lock free.
\* (_init_world ends in NameError: get_spawn_position uses `random`, which
\* world/world.py does not import, so __init__ generates no chunk.)
NoWorldCalls ==
    /\ chunks = [p \in Positions |-> NoChunk]
    /\ lock = NoThread
    /\ thr = [t \in Threads |-> IdleThread]
    /\ calls = 0
    /\ hist = NoHistory
    /\ writes = { }
    /\ clock = InitialClock
    /\ ticks = NoTicks
    /\ pool = NewPool
    /\ meshed = NeverMeshed
    /\ ticked = NoTicked
    /\ prop = NoProp
    /\ block = NoBlock

\* no ChunkMesh was built: an all-air array, never meshed
NotMeshed == [built |-> FALSE, quads |-> << >>]

NoMesh ==
    /\ voxels = [c \in VoxelCells |-> 0]
    /\ mesh = NotMeshed
    /\ placed = 0

\* the World constructions compared, their seeds, the chunk positions they
\* generate, and the seeds the interpreter may have given the global generator
Worlds == { "w1", "w2" }
Seeds == { 1, 2, GenerateSeed }
TerrainPositions == { << 0, 0 >>, << -1, 0 >> }
Entropy == { 3, 4, 5 }

NoWorld == [made |-> FALSE, seed |-> NoSeedArg, spawn |-> [exc |-> "not called", x |-> 0, z |-> 0]]
NoTerrain == [exc |-> "not generated", columns |-> << >>]

NoSeeds ==
    /\ rng = random_seed(0)
    /\ world = [w \in Worlds |-> NoWorld]
    /\ terrain = [w \in Worlds |-> [p \in TerrainPositions |-> NoTerrain]]

\* Chunk(position, generate=False) or Chunk(position, generate=True)
InitChunk ==
    /\ chunk \in { EmptyChunk(TestPosition), generate(EmptyChunk(TestPosition)).c }
    /\ edits = 0
    /\ cpc = "live"
    /\ file = NoFile
    /\ loaded = NotLoaded
    /\ lightOp = NoLightOp
    /\ last = NoCall
    /\ NoWorldCalls
    /\ disk = [p \in Positions |-> NoFile]
    /\ NoMesh
    /\ NoSeeds

\* chunk.set_block(x, y, z, block)
SetBlock(limit) ==
    /\ cpc = "live"
    /\ edits < limit
    /\ \E x \in XIn, y \in YIn, z \in ZIn, b \in InputBlocks :
          chunk' = chunk_set_block(chunk, x, y, z, b)
    /\ edits' = edits + 1
    /\ lightOp' = NoLightOp
    /\ UNCHANGED << cpc, file, loaded, last, outsideChunk >>

\* chunk.save(path)
Save ==
    /\ cpc = "live"
    /\ file' = SaveBytes(chunk)
    /\ cpc' = "saved"
    /\ UNCHANGED << chunk, edits, loaded, lightOp, last, outsideChunk >>

\* the file is cut short on disk
Truncate ==
    /\ cpc = "saved"
    /\ Len(file) = ExpectedFileLength
    /\ \E n \in 0..(ExpectedFileLength - 1) : file' = SubSeq(file, 1, n)
    /\ UNCHANGED << chunk, edits, cpc, loaded, lightOp, last, outsideChunk >>

\* a byte is appended to the file on disk
AppendByte ==
    /\ cpc = "saved"
    /\ Len(file) = ExpectedFileLength
    /\ file' = Append(file, 0)
    /\ UNCHANGED << chunk, edits, cpc, loaded, lightOp, last, outsideChunk >>

\* Chunk.load(position, path)
Load ==
    /\ cpc = "saved"
    /\ loaded' = chunk_load(chunk.position, file)
    /\ cpc' = "loaded"
    /\ UNCHANGED << chunk, edits, file, lightOp, last, outsideChunk >>

\* light_engine.update_chunk(chunk)
UpdateChunk ==
    /\ cpc = "live"
    /\ lightOp.op # "update_chunk"
    /\ chunk' = update_chunk(chunk).c
    /\ lightOp' = [op |-> "update_chunk", exc |-> update_chunk(chunk).exc]
    /\ UNCHANGED << edits, cpc, file, loaded, last, outsideChunk >>

NextChunk == SetBlock(MaxEdits) \/ UpdateChunk

SpecChunk == InitChunk /\ [][NextChunk]_vars

NextPersist == SetBlock(MaxSavedEdits) \/ Save \/ Truncate \/ AppendByte \/ Load

SpecPersist == InitChunk /\ [][NextPersist]_vars

(***************************************************************************)
(* World: one action per step of a thread inside a World call.  The pc of  *)
(* a thread names the call it is executing; the action that leaves the pc  *)
(* applies the writes of that call.                                        *)
(***************************************************************************)
\* the chunk file a former run left for the target position: none, the file
\* Chunk.save writes, or that file cut after its header
DiskFiles ==
    UNION { { NoFile, saved, SubSeq(saved, 1, HeaderBytes) } :
              saved \in { SaveBytes(g) : g \in { generate(EmptyChunk(from_world(0, 0))).c } } }

InitWorld ==
    /\ NoWorldCalls
    /\ \E f \in DiskFiles :
          disk = [p \in Positions |-> IF p = from_world(0, 0) THEN f ELSE NoFile]
    /\ chunk = EmptyChunk(TestPosition)
    /\ edits = 0
    /\ cpc = "live"
    /\ file = NoFile
    /\ loaded = NotLoaded
    /\ lightOp = NoLightOp
    /\ last = NoCall
    /\ NoMesh
    /\ NoSeeds

\* a thread calls World.get_block(x, y, z), World.set_block(x, y, z, Block(b)),
\* World.get_height_at(x, z) or World._generate_chunk(from_world(x, z))
Call(t) ==
    /\ thr[t].pc \in { "idle", "done" }
    /\ calls < MaxCalls
    /\ \E op \in WorldOps, x \in WorldX, y \in WorldY, z \in WorldZ, b \in WorldBlocks :
          /\ op # "set_block" => b = "AIR"
          /\ op \in { "get_height_at", "_generate_chunk" } => y = 0
          /\ op = "_generate_chunk" => x = 0
          /\ thr' = [thr EXCEPT ![t] =
                       [IdleThread EXCEPT
                           !.pc = IF op = "_generate_chunk" THEN "acquire" ELSE "get_chunk_at",
                           !.op = op, !.x = x, !.y = y, !.z = z, !.b = b,
                           !.home = from_world(x, z), !.pos = from_world(x, z)]]
    /\ calls' = calls + 1
    /\ UNCHANGED << chunks, lock, disk, hist, writes, outsideWorld >>

\* World.get_chunk_at, and the test `chunk is None` of its caller
GetChunkAt(t) ==
    LET rec == thr[t]
    IN  /\ rec.pc = "get_chunk_at"
        /\ thr' = [thr EXCEPT ![t] =
                     IF chunks[rec.home] # NoChunk
                     THEN [rec EXCEPT !.pc = IF rec.op = "set_block" THEN "chunk.set_block" ELSE "body",
                                      !.obj = hist.mapObj[rec.home],
                                      !.local_x = LocalX(rec.x, rec.home),
                                      !.local_z = LocalZ(rec.z, rec.home)]
                     ELSE [rec EXCEPT !.pc = "acquire", !.missed = TRUE]]
        /\ UNCHANGED << chunks, lock, disk, calls, hist, writes, outsideWorld >>

\* World._generate_chunk from `with self._generation_lock` to the call of
\* Chunk(position, generate=True): the lock is taken, a chunk in the map is
\* returned (which releases the lock), otherwise _load_chunk runs
Acquire(t) ==
    LET rec == thr[t]
        got == _load_chunk(rec.pos, disk[rec.pos])
        n   == hist.made[rec.pos] + 1
    IN  /\ rec.pc = "acquire"
        /\ CanAcquire(lock)
        /\ IF chunks[rec.pos] # NoChunk
           THEN /\ thr' = [thr EXCEPT ![t] = AfterGenerate(rec, TRUE, hist.mapObj[rec.pos])]
                /\ lock' = NoThread
                /\ hist' = hist
           ELSE /\ hist' = [hist EXCEPT !.made[rec.pos] = n]
                /\ IF got # NoChunk
                   THEN /\ thr' = [thr EXCEPT ![t] = [rec EXCEPT !.pc = "generated", !.chunk = got, !.newObj = n]]
                        /\ lock' = t
                   ELSE IF GenerateDefault
                   THEN /\ thr' = [thr EXCEPT ![t] =
                                     [rec EXCEPT !.pc = "Chunk.generate", !.newObj = n,
                                                 !.chunk = [EmptyChunk(rec.pos) EXCEPT !.is_generating = TRUE]]]
                        /\ lock' = t
                   ELSE /\ thr' = [thr EXCEPT ![t] = AfterGenerate(rec, FALSE, 0)]
                        /\ lock' = NoThread
        /\ UNCHANGED << chunks, disk, calls, writes, outsideWorld >>

\* Chunk.generate inside Chunk(position, generate=True), on the new object
GenerateChunk(t) ==
    LET rec == thr[t]
        r   == generate(rec.chunk)
    IN  /\ rec.pc = "Chunk.generate"
        /\ IF r.exc # "none"
           THEN /\ thr' = [thr EXCEPT ![t] = Raised(rec, r.exc)]
                /\ lock' = NoThread
           ELSE /\ thr' = [thr EXCEPT ![t] = [rec EXCEPT !.pc = "generated", !.chunk = r.c]]
                /\ lock' = lock
        /\ UNCHANGED << chunks, disk, calls, hist, writes, outsideWorld >>

\* self.chunks[position] = chunk
Publish(t) ==
    LET rec == thr[t]
    IN  /\ PublishPoint(rec.pc)
        /\ chunks' = [chunks EXCEPT ![rec.pos] = rec.chunk]
        /\ hist' = [hist EXCEPT !.inserted[rec.pos] = @ + 1, !.mapObj[rec.pos] = rec.newObj]
        /\ thr' = [thr EXCEPT ![t] = [rec EXCEPT !.pc = "update_chunk", !.chunk = NoChunk]]
        /\ UNCHANGED << lock, disk, calls, writes, outsideWorld >>

\* self.light_engine.update_chunk(chunk) and the return of _generate_chunk;
\* an exception leaves the with block, which releases the lock
LightChunk(t) ==
    LET rec == thr[t]
        r   == update_chunk(chunks[rec.pos])
    IN  /\ rec.pc = "update_chunk"
        /\ chunks' = [chunks EXCEPT ![rec.pos] = r.c]
        /\ lock' = NoThread
        /\ thr' = [thr EXCEPT ![t] =
                     IF r.exc # "none" THEN Raised(rec, r.exc)
                     ELSE AfterGenerate(rec, TRUE, rec.newObj)]
        /\ UNCHANGED << disk, calls, hist, writes, outsideWorld >>

\* chunk.get_block(local_x, y, local_z) of World.get_block, and
\* chunk.get_height_at(local_x, local_z) of World.get_height_at
Body(t) ==
    LET rec == thr[t]
        g   == chunk_get_block(chunks[rec.home], rec.local_x, rec.y, rec.local_z)
    IN  /\ rec.pc = "body"
        /\ thr' = [thr EXCEPT ![t] =
                     IF rec.op = "get_height_at"
                     THEN Returned(rec, chunk_get_height_at(chunks[rec.home], rec.local_x, rec.local_z))
                     ELSE IF g.exc # "none" THEN Raised(rec, g.exc)
                     ELSE Returned(rec, g.val)]
        /\ UNCHANGED << chunks, lock, disk, calls, hist, writes, outsideWorld >>

\* chunk.set_block(local_x, y, local_z, block) of World.set_block
ChunkSetBlock(t) ==
    LET rec == thr[t]
        c   == chunks[rec.home]
        old == chunk_get_block(c, rec.local_x, rec.y, rec.local_z)
    IN  /\ rec.pc = "chunk.set_block"
        /\ chunks' = [chunks EXCEPT ![rec.home] =
                        chunk_set_block(c, rec.local_x, rec.y, rec.local_z, Block(rec.b, 0))]
        /\ thr' = [thr EXCEPT ![t] =
                     [rec EXCEPT !.pc = "update_block",
                                 !.removed = /\ rec.b = "AIR"
                                             /\ old.exc = "none"
                                             /\ old.val # None
                                             /\ is_opaque(old.val).val]]
        /\ UNCHANGED << lock, disk, calls, hist, writes, outsideWorld >>

\* self.light_engine.update_block(chunk, local_x, y, local_z) of
\* World.set_block, and the choice of the neighbour chunks to ask for
UpdateBlock(t) ==
    LET rec == thr[t]
        r   == update_block(chunks[rec.home], rec.local_x, rec.y, rec.local_z)
        lit == [rec EXCEPT
                  !.after  = IF rec.removed
                             THEN get_combined_light(r.c, rec.local_x, rec.y, rec.local_z) ELSE 0,
                  !.around = IF rec.removed
                             THEN MaxNeighborCombinedLight(r.c, rec.local_x, rec.y, rec.local_z) ELSE 0]
    IN  /\ rec.pc = "update_block"
        /\ chunks' = [chunks EXCEPT ![rec.home] = r.c]
        /\ thr' = [thr EXCEPT ![t] =
                     IF r.exc # "none" THEN Raised(lit, r.exc)
                     ELSE NextNeighbor([lit EXCEPT !.todo = EdgeNeighbors(rec.home, rec.local_x, rec.local_z)])]
        /\ UNCHANGED << lock, disk, calls, hist, writes, outsideWorld >>

Step(t) ==
    \/ Call(t) \/ GetChunkAt(t) \/ Acquire(t) \/ GenerateChunk(t) \/ Publish(t)
    \/ LightChunk(t) \/ Body(t) \/ ChunkSetBlock(t) \/ UpdateBlock(t)

NextWorld == \E t \in Threads : Step(t)

SpecWorld == InitWorld /\ [][NextWorld]_vars

(***************************************************************************)
(* ChunkMesh: a voxel array is filled, then meshed.                       *)
(***************************************************************************)
\* the non-zero uint8 values written into a voxel array
VoxelTypes == { 1, 2 }

\* the array whose only solid cells are the box x0..x1, y0..y1, z0..z1 of type t
BoxGrid(t, x0, x1, y0, y1, z0, z1) ==
    [c \in VoxelCells |->
        IF /\ x0 <= c[1] /\ c[1] <= x1
           /\ y0 <= c[2] /\ c[2] <= y1
           /\ z0 <= c[3] /\ c[3] <= z1
        THEN t ELSE 0]

\* Chunk(position, generate=False), untouched, and no chunk file
NoChunkCalls ==
    /\ chunk = EmptyChunk(TestPosition)
    /\ edits = 0
    /\ cpc = "live"
    /\ file = NoFile
    /\ loaded = NotLoaded
    /\ lightOp = NoLightOp
    /\ last = NoCall

NoDisk == disk = [p \in Positions |-> NoFile]

\* np.zeros(shape, dtype=np.uint8), as generate_chunk_data allocates it
InitMesh ==
    /\ NoMesh
    /\ NoChunkCalls
    /\ NoWorldCalls
    /\ NoDisk
    /\ NoSeeds

\* voxels[x0:x1+1, y0:y1+1, z0:z1+1] = t on the fresh array, the box one cell
\* thick along at least one axis
FillSlab ==
    /\ placed = 0
    /\ ~mesh.built
    /\ \E t \in VoxelTypes :
       \E x0 \in 0..(DimX - 1), y0 \in 0..(DimY - 1), z0 \in 0..(DimZ - 1) :
       \E x1 \in x0..(DimX - 1), y1 \in y0..(DimY - 1), z1 \in z0..(DimZ - 1) :
          /\ x0 = x1 \/ y0 = y1 \/ z0 = z1
          /\ voxels' = BoxGrid(t, x0, x1, y0, y1, z0, z1)
    /\ placed' = MaxVoxelEdits
    /\ UNCHANGED << mesh, outsideMesh >>

\* voxels[x, y, z] = t
SetVoxel ==
    /\ placed < MaxVoxelEdits
    /\ \E c \in VoxelCells, t \in VoxelTypes \cup { 0 } :
          voxels' = [voxels EXCEPT ![c] = t]
    /\ placed' = placed + 1
    /\ mesh' = NotMeshed
    /\ UNCHANGED outsideMesh

\* ChunkMesh(ctx, program, voxels): generate_mesh on the array
GenerateMesh ==
    /\ ~mesh.built
    /\ mesh' = [built |-> TRUE, quads |-> generate_mesh(voxels)]
    /\ UNCHANGED << voxels, placed, outsideMesh >>

NextMesh == FillSlab \/ SetVoxel \/ GenerateMesh

SpecMesh == InitMesh /\ [][NextMesh]_vars

(***************************************************************************)
(* Seeds: Worlds are constructed with a seed and generate chunks.          *)
(***************************************************************************)
InitSeeds ==
    /\ rng \in { random_seed(e) : e \in Entropy }
    /\ world = [w \in Worlds |-> NoWorld]
    /\ terrain = [w \in Worlds |-> [p \in TerrainPositions |-> NoTerrain]]
    /\ NoChunkCalls
    /\ NoWorldCalls
    /\ NoDisk
    /\ NoMesh

\* World(seed): __init__ makes NoiseGenerator(self.seed), then _init_world
\* calls _generate_initial_chunks, whose first statement is
\* get_spawn_position()
NewWorld(w) ==
    /\ ~world[w].made
    /\ \E seed \in Seeds :
          \E sp \in { get_spawn_position(NoiseGenerator(rng, seed).rng, seed) } :
             /\ world' = [world EXCEPT ![w] =
                            [made |-> TRUE, seed |-> seed,
                             spawn |-> [exc |-> sp.exc, x |-> sp.x, z |-> sp.z]]]
             /\ rng' = sp.rng
    /\ UNCHANGED << terrain, outsideSeeds >>

\* Chunk(position, generate=True), as _generate_chunk of the World w calls it
GenerateTerrain(w, p) ==
    /\ world[w].made
    /\ terrain[w][p] = NoTerrain
    /\ \E g \in { generate_terrain(p, rng) } :
          /\ terrain' = [terrain EXCEPT ![w][p] = [exc |-> g.exc, columns |-> g.columns]]
          /\ rng' = g.rng
    /\ UNCHANGED << world, outsideSeeds >>

NextSeeds ==
    \E w \in Worlds : NewWorld(w) \/ \E p \in TerrainPositions : GenerateTerrain(w, p)

SpecSeeds == InitSeeds /\ [][NextSeeds]_vars

(***************************************************************************)
(* Calls on one Chunk: some set_block calls, then one call whose outcome   *)
(* is kept in `last`.                                                      *)
(***************************************************************************)
\* the Block arguments of the recorded set_block calls; the torch carries the
\* light level of a lit cell
CallBlocks ==
    { Block("AIR", 0), Block("STONE", 0), [Block("TORCH", 5) EXCEPT !.light_level = 14] }

\* the visible_blocks arguments of build_mesh, in world coordinates: nothing,
\* one cell, every cell of the chunk, every cell and one beside the chunk
VisibleInputs ==
    LET at(x, y, z) == << to_world(TestPosition, x, z)[1], y, to_world(TestPosition, x, z)[2] >>
        all == { at(x, y, z) : x \in 0..(CHUNK_WIDTH - 1), y \in 0..(CHUNK_HEIGHT - 1),
                               z \in 0..(CHUNK_DEPTH - 1) }
    IN  { { }, all, all \cup { at(-1, 0, 0) } } \cup { { p } : p \in all }

\* the record kept of a call: its arguments and how it ended
Outcome(op, x, y, z, exc, none, ret) ==
    [op |-> op, x |-> x, y |-> y, z |-> z, exc |-> exc, none |-> none, ret |-> ret]

\* chunk.set_block(x, y, z, block)
CallSetBlock ==
    /\ last.op \in { "none", "set_block" }
    /\ edits < MaxEdits
    /\ \E x \in XIn, y \in YIn, z \in ZIn, b \in CallBlocks :
          /\ chunk' = chunk_set_block(chunk, x, y, z, b)
          /\ last' = Outcome("set_block", x, y, z, "none", TRUE, 0)
    /\ edits' = edits + 1
    /\ UNCHANGED << cpc, file, loaded, lightOp, outsideChunk >>

\* chunk.get_block(x, y, z)
CallGetBlock ==
    /\ last.op \in { "none", "set_block" }
    /\ \E x \in XIn, y \in YIn, z \in ZIn :
       \E r \in { chunk_get_block(chunk, x, y, z) } :
          last' = Outcome("get_block", x, y, z, r.exc, r.exc = "none" /\ r.val = None, 0)
    /\ UNCHANGED << chunk, edits, cpc, file, loaded, lightOp, outsideChunk >>

\* light_engine.update_block(chunk, x, y, z)
CallUpdateBlock ==
    /\ last.op \in { "none", "set_block" }
    /\ \E x \in XIn, y \in YIn, z \in ZIn :
       \E r \in { update_block(chunk, x, y, z) } :
          /\ chunk' = r.c
          /\ last' = Outcome("update_block", x, y, z, r.exc, r.exc = "none", 0)
    /\ UNCHANGED << edits, cpc, file, loaded, lightOp, outsideChunk >>

\* light_engine.get_combined_light(chunk, x, y, z)
CallGetCombinedLight ==
    /\ last.op \in { "none", "set_block" }
    /\ \E x \in XIn, y \in YIn, z \in ZIn :
          last' = Outcome("get_combined_light", x, y, z, "none", FALSE,
                          get_combined_light(chunk, x, y, z))
    /\ UNCHANGED << chunk, edits, cpc, file, loaded, lightOp, outsideChunk >>

\* chunk.build_mesh(visible_blocks)
CallBuildMesh ==
    /\ last.op \in { "none", "set_block" }
    /\ \E vis \in VisibleInputs :
       \E r \in { build_mesh(chunk, vis) } :
          last' = Outcome("build_mesh", Cardinality(vis), 0, 0, r.exc, FALSE, r.floats)
    /\ UNCHANGED << chunk, edits, cpc, file, loaded, lightOp, outsideChunk >>

NextCalls ==
    CallSetBlock \/ CallGetBlock \/ CallUpdateBlock \/ CallGetCombinedLight \/ CallBuildMesh

SpecCalls == InitChunk /\ [][NextCalls]_vars

(***************************************************************************)
(* Saving: one thread makes World calls, among them save_chunk and         *)
(* save_all.                                                               *)
(***************************************************************************)
\* world.save_chunk(position)
SaveChunk(t) ==
    /\ thr[t].pc \in { "idle", "done" }
    /\ calls < MaxCalls
    /\ \E p \in Positions :
       \E st \in { save_chunk(chunks, [disk |-> disk, writes |-> writes], p) } :
          /\ disk' = st.disk
          /\ writes' = st.writes
          /\ thr' = [thr EXCEPT ![t] =
                       [IdleThread EXCEPT !.pc = "done", !.op = "save_chunk", !.home = p, !.pos = p]]
    /\ calls' = calls + 1
    /\ UNCHANGED << chunks, lock, hist, outsideWorld >>

\* world.save_all()
SaveAll(t) ==
    /\ thr[t].pc \in { "idle", "done" }
    /\ calls < MaxCalls
    /\ \E st \in { save_all(chunks, [disk |-> disk, writes |-> writes]) } :
          /\ disk' = st.disk
          /\ writes' = st.writes
    /\ thr' = [thr EXCEPT ![t] = [IdleThread EXCEPT !.pc = "done", !.op = "save_all"]]
    /\ calls' = calls + 1
    /\ UNCHANGED << chunks, lock, hist, outsideWorld >>

NextSave == Step("t1") \/ SaveChunk("t1") \/ SaveAll("t1")

SpecSave == InitWorld /\ [][NextSave]_vars

(***************************************************************************)
(* Time and weather: World.update calls and changes of the weather flags.  *)
(***************************************************************************)
\* the delta_time arguments, in half seconds: nothing, half a second, 3.5 s,
\* the 900 s that end the first day, and more than a day
DeltaTimes == { 0, 1, 7, 1800, 4801 }

InitTime ==
    /\ NoWorldCalls
    /\ NoChunkCalls
    /\ NoDisk
    /\ NoMesh
    /\ NoSeeds

\* what World.update leaves alone
outsideUpdate == << chunkVars, worldVars, meshVars, seedVars, pool, block, prop, meshed >>

\* world.update(delta_time); past MaxUpdates counted calls only update(0) is
\* explored, which leaves the clock where it is
Update ==
    /\ \E delta_time \in DeltaTimes :
          /\ ticks.updates < MaxUpdates \/ delta_time = 0
          /\ clock' = update(clock, delta_time)
          /\ ticks' = IF ticks.updates < MaxUpdates
                      THEN [updates |-> ticks.updates + 1, delta_time |-> delta_time,
                            elapsed |-> ticks.elapsed + delta_time]
                      ELSE ticks
    /\ ticked' = _tick_random_blocks(ticked)
    /\ UNCHANGED outsideUpdate

\* world.is_raining = not world.is_raining
SetRaining ==
    /\ clock' = [clock EXCEPT !.is_raining = ~@]
    /\ UNCHANGED << ticks, outsideTime >>

\* world.is_thundering = not world.is_thundering
SetThundering ==
    /\ clock' = [clock EXCEPT !.is_thundering = ~@]
    /\ UNCHANGED << ticks, outsideTime >>

NextTime == Update \/ SetRaining \/ SetThundering

SpecTime == InitTime /\ [][NextTime]_vars

(***************************************************************************)
(* The worker pool: tasks are submitted to World.executor and run by its   *)
(* workers while World.cleanup is called.                                  *)
(***************************************************************************)
\* world.executor.submit(task); a pool that was shut down takes no task
Submit(k) ==
    /\ pool.task[k] = "none"
    /\ pool.cleanup # "done"
    /\ pool' = [pool EXCEPT !.task[k] = "queued"]
    /\ UNCHANGED outsidePool

\* a worker of the pool starts a queued task
StartTask(k) ==
    /\ pool.task[k] = "queued"
    /\ pool' = [pool EXCEPT !.task[k] = "running"]
    /\ UNCHANGED outsidePool

\* the task returns
FinishTask(k) ==
    /\ pool.task[k] = "running"
    /\ pool' = [pool EXCEPT !.task[k] = "finished"]
    /\ UNCHANGED outsidePool

\* World.cleanup, first statement: self.save_all()
CleanupSaveAll ==
    /\ pool.cleanup = "not called"
    /\ \E st \in { save_all(chunks, [disk |-> disk, writes |-> writes]) } :
          /\ disk' = st.disk
          /\ writes' = st.writes
    /\ pool' = [pool EXCEPT !.cleanup = "saved",
                            !.unfinished = { k \in Tasks : pool.task[k] \in { "queued", "running" } }]
    /\ UNCHANGED << chunks, lock, thr, calls, hist, chunkVars, meshVars, seedVars, timeVars, meshed, ticked, prop, block >>

\* World.cleanup, second statement: self.executor.shutdown(wait=True) returns
\* once no task is queued or running
CleanupShutdown ==
    /\ pool.cleanup = "saved"
    /\ \A k \in Tasks : pool.task[k] \in { "none", "finished" }
    /\ pool' = [pool EXCEPT !.cleanup = "done"]
    /\ UNCHANGED outsidePool

NextPool ==
    \/ \E k \in Tasks : Submit(k) \/ StartTask(k) \/ FinishTask(k)
    \/ CleanupSaveAll
    \/ CleanupShutdown

SpecPool == InitTime /\ [][NextPool]_vars

(***************************************************************************)
(* Blocks: a Block of any type is constructed and its predicates called.   *)
(***************************************************************************)
InitBlocks ==
    /\ NoWorldCalls
    /\ NoChunkCalls
    /\ NoDisk
    /\ NoMesh
    /\ NoSeeds

\* block = Block(block_type)
NewBlock ==
    /\ ~block.made
    /\ \E t \in BlockTypeNames : block' = [NoBlock EXCEPT !.made = TRUE, !.b = Block(t, 0)]
    /\ UNCHANGED outsideBlock

\* block.is_opaque()
IsOpaque ==
    /\ block.made
    /\ block.is_opaque = NotCalled
    /\ block' = [block EXCEPT !.is_opaque = is_opaque(block.b)]
    /\ UNCHANGED outsideBlock

\* block.is_transparent()
IsTransparent ==
    /\ block.made
    /\ block.is_transparent = NotCalled
    /\ block' = [block EXCEPT !.is_transparent = is_transparent(block.b)]
    /\ UNCHANGED outsideBlock

NextBlocks == NewBlock \/ IsOpaque \/ IsTransparent

SpecBlocks == InitBlocks /\ [][NextBlocks]_vars

(***************************************************************************)
(* Light propagation: one of the two light engines is constructed; blocks  *)
(* are placed, and propagations are started and run one iteration (or one  *)
(* _spread_light call) at a time.                                          *)
(***************************************************************************)
\* the light arguments of the _set_block_light calls
LightLevels == { 0, 2, 14 }

\* the cells propagations are started at: those of the chunk and one beside it
StartCells ==
    ((0..(CHUNK_WIDTH - 1)) \X (0..(CHUNK_HEIGHT - 1)) \X (0..(CHUNK_DEPTH - 1)))
       \cup { << -1, 0, 0 >> }

\* what a step of a propagation on the chunk leaves alone
outsideLight == << worldVars, meshVars, seedVars, timeVars, pool, block, ticked, meshed >>
outsideTicked == << chunkVars, worldVars, meshVars, seedVars, timeVars, pool, block, prop, meshed >>
outsideMeshed == << chunkVars, worldVars, meshVars, seedVars, timeVars, pool, block, prop, ticked >>

\* LightEngine() of utils/light.py, or LightEngine(world) of engine/lighting.py
\* with its light_map of zeros
NewLightEngine ==
    /\ prop.engine = "none"
    /\ \E e \in { "utils.light", "engine.lighting" } : prop' = [NoProp EXCEPT !.engine = e]
    /\ UNCHANGED outsideProp

\* chunk.set_block(x, y, z, block) on a cell of the chunk while nothing
\* propagates
PlaceBlock ==
    /\ prop.engine = "utils.light"
    /\ prop.status # "running"
    /\ edits < MaxEdits
    /\ \E c \in StartCells \cap (XIn \X YIn \X ZIn), b \in CallBlocks :
          chunk' = chunk_set_block(chunk, c[1], c[2], c[3], b)
    /\ edits' = edits + 1
    /\ UNCHANGED << cpc, file, loaded, lightOp, last, outsideChunk >>

\* world.voxels[x, y, z] = t while nothing propagates
PlaceVoxel ==
    /\ prop.engine = "engine.lighting"
    /\ prop.status # "running"
    /\ SetVoxel

\* how a propagation that has made its step goes on: raised, returned (no
\* entry left), or running
StatusAfter(exc, pending) ==
    IF exc # "none" THEN "raised"
    ELSE IF pending = << >> THEN "returned"
    ELSE "running"

\* light_engine._set_block_light(chunk, x, y, z, light), up to the loop
StartSetBlockLight ==
    /\ prop.engine = "utils.light"
    /\ prop.status # "running"
    /\ prop.runs < MaxRuns
    /\ \E c \in StartCells, light \in LightLevels :
          prop' = [prop EXCEPT
                     !.algo    = "_set_block_light",
                     !.queue   = IF light <= 0 THEN << >>
                                 ELSE << << c[1], c[2], c[3], light >> >>,
                     !.visited = { },
                     !.status  = IF light <= 0 THEN "returned" ELSE "running",
                     !.runs    = @ + 1]
    /\ UNCHANGED outsideProp

\* one iteration of the while loop of _set_block_light
StepSetBlockLight ==
    /\ prop.status = "running"
    /\ prop.algo = "_set_block_light"
    /\ \E r \in { BfsStep(chunk, prop.queue, prop.visited) } :
          /\ chunk' = r.c
          /\ prop' = [prop EXCEPT !.queue = r.queue, !.visited = r.visited,
                                  !.status = StatusAfter(r.exc, r.queue)]
    /\ UNCHANGED << edits, cpc, file, loaded, lightOp, last, outsideLight >>

\* light_engine.update_block(chunk, x, y, z), up to its first _spread_light call
StartUpdateBlock ==
    /\ prop.engine = "utils.light"
    /\ prop.status # "running"
    /\ prop.runs < MaxRuns
    /\ \E c \in StartCells :
       \E r \in { update_block_begin(chunk, c[1], c[2], c[3]) } :
          /\ chunk' = r.c
          /\ prop' = [prop EXCEPT !.algo = "_spread_light", !.queue = r.todo,
                                  !.visited = { },
                                  !.status = StatusAfter(r.exc, r.todo),
                                  !.runs = @ + 1]
    /\ UNCHANGED << edits, cpc, file, loaded, lightOp, last, outsideLight >>

\* one call of _spread_light
StepSpreadLight ==
    /\ prop.status = "running"
    /\ prop.algo = "_spread_light"
    /\ \E r \in { SpreadStep(chunk, prop.queue) } :
          /\ chunk' = r.c
          /\ prop' = [prop EXCEPT !.queue = r.todo, !.status = StatusAfter(r.exc, r.todo)]
    /\ UNCHANGED << edits, cpc, file, loaded, lightOp, last, outsideLight >>

\* light_engine.propagate_sunlight(), up to the loop of bfs_propagate
StartSunlight ==
    /\ prop.engine = "engine.lighting"
    /\ prop.status # "running"
    /\ prop.runs < MaxRuns
    /\ \E r \in { propagate_sunlight(voxels, prop.light_map) } :
          prop' = [prop EXCEPT !.algo = "bfs_propagate", !.queue = r.queue,
                               !.light_map = r.light_map,
                               !.status = StatusAfter("none", r.queue),
                               !.runs = @ + 1]
    /\ UNCHANGED outsideProp

\* one iteration of the while loop of bfs_propagate
StepBfsPropagate ==
    /\ prop.status = "running"
    /\ prop.algo = "bfs_propagate"
    /\ \E r \in { bfs_propagate(voxels, prop.light_map, prop.queue) } :
          prop' = [prop EXCEPT !.queue = r.queue, !.light_map = r.light_map,
                               !.status = StatusAfter("none", r.queue)]
    /\ UNCHANGED outsideProp

StepLight == StepSetBlockLight \/ StepSpreadLight \/ StepBfsPropagate

NextLight ==
    \/ NewLightEngine
    \/ PlaceBlock
    \/ PlaceVoxel
    \/ StartSetBlockLight
    \/ StartUpdateBlock
    \/ StartSunlight
    \/ StepLight

SpecLight == InitChunk /\ [][NextLight]_vars

\* the thread that runs a propagation keeps running it
SpecLightFair == SpecLight /\ WF_vars(StepLight)

(***************************************************************************)
(* Random ticks: chunks enter world.chunks and World.update is called      *)
(* again and again.                                                        *)
(***************************************************************************)
\* `self.chunks[position] = chunk` of World._generate_chunk for a position
\* that is not in the map: the dictionary gets a new last key.  Nothing
\* removes a key from world.chunks.
InsertChunk ==
    /\ Len(ticked.map) < MaxLoaded
    /\ ticked' = [ticked EXCEPT !.map = Append(@, Len(@) + 1)]
    /\ UNCHANGED outsideTicked

NextTick == InsertChunk \/ Update

SpecTick == InitTime /\ [][NextTick]_vars

\* the game loop keeps calling world.update
SpecTickFair == SpecTick /\ WF_vars(Update)

(***************************************************************************)
(* The dirty flag: a chunk is edited, lit, meshed, saved and loaded.       *)
(***************************************************************************)
\* chunk.build_mesh(visible_blocks): it reads the chunk and writes none of
\* its flags
BuildMesh ==
    /\ cpc = "live"
    /\ \E vis \in VisibleInputs :
       \E r \in { build_mesh(chunk, vis) } :
          meshed' = IF r.exc = "none" THEN [built |-> TRUE, content |-> Content(chunk)]
                    ELSE meshed
    /\ UNCHANGED << chunkVars, outsideMeshed >>

NextDirty == SetBlock(MaxEdits) \/ UpdateChunk \/ BuildMesh \/ Save \/ Load

SpecDirty == InitChunk /\ [][NextDirty]_vars

(***************************************************************************)
(* Claims                                                                  *)
(***************************************************************************)
\* a cell holds a non-air block: it was written, and not with BlockType.AIR
HoldsBlock(c, x, y, z) ==
    c.type[_get_index(x, y, z)] # 0 /\ c.type[_get_index(x, y, z)] # AIR_VALUE

\* the greatest y of column (x, z) holding a non-air block, or -1
TopBlock(c, x, z) ==
    IF \E y \in 0..(CHUNK_HEIGHT - 1) : HoldsBlock(c, x, y, z)
    THEN CHOOSE y \in 0..(CHUNK_HEIGHT - 1) :
            /\ HoldsBlock(c, x, y, z)
            /\ \A y2 \in (y + 1)..(CHUNK_HEIGHT - 1) : ~HoldsBlock(c, x, y2, z)
    ELSE -1

\* C1: in every reachable state of a Chunk (created empty, generated, after
\* any set_block calls) height_map[x,z] is the greatest y holding a non-air
\* block in column (x,z), or -1 if there is none.
C1_HeightMapIsTopBlock ==
    \A x \in 0..(CHUNK_WIDTH - 1), z \in 0..(CHUNK_DEPTH - 1) :
        chunk.height_map[z * CHUNK_WIDTH + x] = TopBlock(chunk, x, z)

\* C3: save followed by load of the intact file returns a chunk whose
\* get_block results equal the original's at every in-range coordinate and
\* whose height_map equals the original's.
C3_SaveLoadRoundTrip ==
    (cpc = "loaded" /\ file = SaveBytes(chunk)) =>
        /\ loaded.exc = "none"
        /\ loaded.val # NoChunk
        /\ \A x \in 0..(CHUNK_WIDTH - 1), y \in 0..(CHUNK_HEIGHT - 1), z \in 0..(CHUNK_DEPTH - 1) :
              chunk_get_block(loaded.val, x, y, z) = chunk_get_block(chunk, x, y, z)
        /\ loaded.val.height_map = chunk.height_map

\* C4: Chunk.load of a file whose length differs from the expected byte
\* count fails with an error and returns no chunk.
C4_BadLengthLoadFails ==
    (cpc = "loaded" /\ file # NoFile /\ Len(file) # ExpectedFileLength) =>
        (loaded.exc # "none" /\ loaded.val = NoChunk)

\* C4 witness: a file cut inside the light or height-map sections was loaded
\* and the load failed.
C4_Witness_CutInLightSection ==
    /\ cpc = "loaded"
    /\ file # NoFile
    /\ Len(file) >= BlockSectionEnd
    /\ Len(file) < ExpectedFileLength
    /\ loaded.exc # "none"

\* light can pass the cell: it holds no block, or a transparent one
Passable(c, i) ==
    \/ c.type[i] = 0
    \/ c.type[i] = AIR_VALUE
    \/ (c.type[i] \in 1..Len(BlockTypeEnum) /\ BlockTypeEnum[c.type[i]] \in TransparentRefs)

\* the emission level of the block in the cell
Emission(c, i) ==
    IF c.type[i] \in 1..Len(BlockTypeEnum) THEN EmitterLevel(BlockTypeEnum[c.type[i]]) ELSE 0

CellAt(x, y, z) == IF InBounds(x, y, z) THEN {_get_index(x, y, z)} ELSE {}

NeighborCells(i) ==
    LET x == i % CHUNK_WIDTH
        z == (i \div CHUNK_WIDTH) % CHUNK_DEPTH
        y == i \div (CHUNK_WIDTH * CHUNK_DEPTH)
    IN  UNION { CellAt(x + NeighborOffsets[n][1], y + NeighborOffsets[n][2], z + NeighborOffsets[n][3]) :
                n \in 1..6 }

MaxOf(S) == IF S = {} THEN 0 ELSE CHOOSE m \in S : \A n \in S : n <= m

RECURSIVE LitBy(_, _, _, _)
\* the pairs <<cell, level>> one emitter lights: `frontier` are the cells at
\* the current path length, reached only through passable cells
LitBy(c, seen, frontier, level) ==
    IF level <= 0 \/ frontier = {} THEN {}
    ELSE { << i, level >> : i \in frontier }
         \cup LitBy(c, seen \cup frontier,
                    { j \in UNION { NeighborCells(i) : i \in frontier } :
                        Passable(c, j) /\ j \notin seen \cup frontier },
                    level - 1)

\* the flood-fill reference: max over emitters of emission minus path length
\* through passable cells, 0 where no emitter reaches and in every cell
\* that is not passable
FloodReference(c) ==
    LET lit == UNION { LitBy(c, {}, {e}, Emission(c, e)) :
                         e \in { i \in Cells : Passable(c, i) /\ Emission(c, i) > 0 } }
    IN  [i \in Cells |-> MaxOf({ p[2] : p \in { q \in lit : q[1] = i } })]

\* C9: after LightEngine.update_chunk the block_light of every cell equals
\* the flood-fill reference (emitters at their emission level, minus one per
\* step through transparent cells, 0 in non-transparent cells).
C9_BlockLightIsFloodFill ==
    lightOp.op = "update_chunk" => chunk.block_light = FloodReference(chunk)

\* the call of thread t is over, by a return or by an exception
Over(t) == thr[t].pc = "done"

Unloadable(p) == disk[p] = NoFile \/ chunk_load(p, disk[p]).exc # "none"

Completed(p) ==
    { generate(EmptyChunk(p)).c }
    \cup (IF Unloadable(p) THEN {} ELSE { chunk_load(p, disk[p]).val })

InLight(t, p) ==
    \/ thr[t].pc = "update_chunk" /\ thr[t].pos = p
    \/ thr[t].pc = "update_block" /\ thr[t].home = p

\* thread t is executing Chunk.set_block on the chunk at p
InSetBlock(t, p) == thr[t].pc = "chunk.set_block" /\ thr[t].home = p

TopQuads(y) ==
    { k \in 1..Len(mesh.quads) : mesh.quads[k].d = 1 /\ mesh.quads[k].x[2] = y }

\* C11: when the only solid cells of the meshed array form one same-type box
\* that is one cell thick along an axis, generate_mesh emits exactly one quad
\* for the top face of the box, spanning its whole extent in x and z; for an
\* all-air array it emits no quad, hence no vertex.
C11_SlabTopIsOneQuad ==
    mesh.built =>
      /\ (voxels = [c \in VoxelCells |-> 0]) => mesh.quads = << >>
      /\ \A t \in VoxelTypes :
         \A x0 \in 0..(DimX - 1), y0 \in 0..(DimY - 1), z0 \in 0..(DimZ - 1) :
         \A x1 \in x0..(DimX - 1), y1 \in y0..(DimY - 1), z1 \in z0..(DimZ - 1) :
            ( /\ x0 = x1 \/ y0 = y1 \/ z0 = z1
              /\ voxels = BoxGrid(t, x0, x1, y0, y1, z0, z1) )
            => /\ Cardinality(TopQuads(y1)) = 1
               /\ \A k \in TopQuads(y1) :
                     /\ mesh.quads[k].x = << x0, y1, z0 >>
                     /\ mesh.quads[k].du = << 0, 0, z1 - z0 + 1 >>
                     /\ mesh.quads[k].dv = << x1 - x0 + 1, 0, 0 >>
                     /\ mesh.quads[k].val = t

\* C11 witness: a slab two cells wide and two cells deep was meshed
C11_Witness_WideSlabMeshed ==
    /\ mesh.built
    /\ \E t \in VoxelTypes, y \in 0..(DimY - 1) :
          /\ voxels = BoxGrid(t, 0, 1, y, y, 0, 1)
          /\ TopQuads(y) # { }

\* ---------------------------------------------------------------------------
\* C12: two Worlds made with the same seed got the same (x, z) back from
\* get_spawn_position, and every chunk position both generated has the same
\* layout in both, whatever the global generator held and whatever was
\* generated before.
C12_SameSeedSameWorld ==
    \A w1 \in Worlds, w2 \in Worlds :
       (world[w1].made /\ world[w2].made /\ world[w1].seed = world[w2].seed)
       => /\ world[w1].spawn.exc = "none"
          /\ world[w2].spawn.exc = "none"
          /\ world[w1].spawn.x = world[w2].spawn.x
          /\ world[w1].spawn.z = world[w2].spawn.z
          /\ \A p \in TerrainPositions :
                (terrain[w1][p] # NoTerrain /\ terrain[w2][p] # NoTerrain)
                => terrain[w1][p] = terrain[w2][p]

\* the block type the surface cell of a column of elevation h is to hold
SurfaceType(h) ==
    IF h > SnowLevel THEN "SNOW"
    ELSE IF h > MountainLevel THEN "STONE"
    ELSE IF h > DesertLevel THEN "SAND"
    ELSE "GRASS"

OutOfRange(call) == ~InBounds(call.x, call.y, call.z)

\* C14: a Chunk.set_block call with a coordinate out of range leaves the
\* whole chunk as it was (block data, both light arrays, height map and
\* flags), and a Chunk.get_block call with a coordinate out of range returns
\* None without raising.
C14_OutOfRangeIsInert ==
    [][ /\ (last'.op = "set_block" /\ OutOfRange(last')) => chunk' = chunk
        /\ (last'.op = "get_block" /\ OutOfRange(last'))
              => (last'.exc = "none" /\ last'.none) ]_vars

\* C14 witness: set_block one past the last x of an existing row was called on
\* a chunk nothing has modified
C14_Witness_SetPastEdge ==
    /\ last.op = "set_block"
    /\ last.x = CHUNK_WIDTH
    /\ InBounds(0, last.y, last.z)
    /\ ~chunk.is_modified

\* C15: Chunk.get_block on an in-range cell that holds no block (never
\* written, or last written with AIR) returns None without raising.
C15_EmptyCellReadsNull ==
    ( /\ last.op = "get_block"
      /\ InBounds(last.x, last.y, last.z)
      /\ chunk.type[_get_index(last.x, last.y, last.z)] \in { 0, AIR_VALUE } )
    => (last.exc = "none" /\ last.none)

\* C16: LightEngine.update_block with a coordinate out of range changes no
\* sky_light and no block_light value of the chunk, and get_combined_light
\* with a coordinate out of range returns 0 without raising.
C16_OutOfRangeLightIsInert ==
    [][ /\ (last'.op = "update_block" /\ OutOfRange(last'))
              => /\ chunk'.sky_light = chunk.sky_light
                 /\ chunk'.block_light = chunk.block_light
        /\ (last'.op = "get_combined_light" /\ OutOfRange(last'))
              => (last'.ret = 0 /\ last'.exc = "none") ]_vars

\* C18: after an in-range set_block the chunk is dirty and its mesh invalid;
\* after the build_mesh that follows the edits the chunk is no longer dirty.
C18_BuildMeshClearsDirty ==
    /\ (last.op = "set_block" /\ InBounds(last.x, last.y, last.z))
          => (chunk.is_dirty /\ ~chunk.mesh_valid)
    /\ (last.op = "build_mesh" /\ last.exc = "none") => ~chunk.is_dirty

Toward(v, step, goal) == IF goal >= v THEN Min(goal, v + step) ELSE Max(goal, v - step)

\* C19: across World.update calls and changes of is_raining / is_thundering,
\* time_of_day stays in [0, 24000) and equals the start time plus 20 ticks
\* per second of delta_time, modulo 24000; both intensities stay in [0, 1];
\* an update moves each by 0.1 per second of delta_time toward 1 when its
\* flag is set and toward 0 otherwise, and nothing else moves them.
C19_ClockAndWeather ==
    [][ /\ 0 <= clock'.time_of_day /\ clock'.time_of_day < 24000
        /\ clock'.time_of_day = (InitialClock.time_of_day + 10 * ticks'.elapsed) % 24000
        /\ 0 <= clock'.rain_intensity /\ clock'.rain_intensity <= 20
        /\ 0 <= clock'.thunder_intensity /\ clock'.thunder_intensity <= 20
        /\ clock'.rain_intensity =
              IF ticks'.updates = ticks.updates THEN clock.rain_intensity
              ELSE Toward(clock.rain_intensity, ticks'.delta_time,
                          IF clock.is_raining THEN 20 ELSE 0)
        /\ clock'.thunder_intensity =
              IF ticks'.updates = ticks.updates THEN clock.thunder_intensity
              ELSE Toward(clock.thunder_intensity, ticks'.delta_time,
                          IF clock.is_thundering THEN 20 ELSE 0) ]_vars

\* C19 witness: updates carried the time past the end of a day while rain
\* built up to full intensity and thunder did not
C19_Witness_NextDayFullRain ==
    /\ ticks.updates > 1
    /\ InitialClock.time_of_day + 10 * ticks.elapsed >= 24000
    /\ clock.rain_intensity = 20
    /\ clock.thunder_intensity < 20
    /\ clock.thunder_intensity > 0

\* C20: when World.cleanup began its final save, every task submitted to the
\* worker pool had finished.
C20_DrainedBeforeSave ==
    pool.cleanup # "not called" => pool.unfinished = { }

\* ---------------------------------------------------------------------------
\* C21: for a Block of every BlockType, is_opaque and is_transparent return
\* a boolean without raising, never both TRUE, and for the liquids (WATER,
\* LAVA) is_transparent returns TRUE and is_opaque FALSE.
C21_OpaqueTransparentDisjoint ==
    /\ block.is_opaque.exc \in { "not called", "none" }
    /\ block.is_transparent.exc \in { "not called", "none" }
    /\ ~(block.is_opaque.val /\ block.is_transparent.val)
    /\ (block.made /\ is_liquid(block.b)) =>
          /\ block.is_opaque.exc = "none" => ~block.is_opaque.val
          /\ block.is_transparent.exc = "none" => block.is_transparent.val

\* ---------------------------------------------------------------------------
\* the sky light the top-down rule gives a cell from the value above it
SkyRule(t, above) ==
    IF t = 0 \/ t = AIR_VALUE THEN above
    ELSE IF BlockTypeEnum[t] \in OpaqueRefs THEN 0
    ELSE IF BlockTypeEnum[t] = "WATER" THEN Max(0, above - 2)
    ELSE Max(0, above - 1)

\* C22: after update_chunk every cell's sky_light is in 0..15 and follows
\* the top-down rule from the cell above it (15 above the topmost cell): air
\* keeps the value, an opaque block sets it to 0, water lowers it by 2 and
\* any other transparent block by 1.
C22_SkyLightTopDown ==
    lightOp.op = "update_chunk" =>
       \A x \in 0..(CHUNK_WIDTH - 1), y \in 0..(CHUNK_HEIGHT - 1), z \in 0..(CHUNK_DEPTH - 1) :
          LET above == IF y = CHUNK_HEIGHT - 1 THEN SkyLightTop
                       ELSE chunk.sky_light[_get_index(x, y + 1, z)]
              light == chunk.sky_light[_get_index(x, y, z)]
          IN  /\ light \in 0..15
              /\ light = SkyRule(chunk.type[_get_index(x, y, z)], above)

\* ---------------------------------------------------------------------------
\* the mask cells (i, j) of a slice that the quad q covers
QuadCells(q) ==
    LET u == (q.d + 1) % 3
        v == (q.d + 2) % 3
    IN  { << i, j >> : i \in q.x[u + 1]..(q.x[u + 1] + q.du[u + 1] - 1),
                       j \in q.x[v + 1]..(q.x[v + 1] + q.dv[v + 1] - 1) }

\* the indices of the quads emitted for the slice xd of axis d
SliceQuads(d, xd) ==
    { k \in 1..Len(mesh.quads) : mesh.quads[k].d = d /\ mesh.quads[k].x[d + 1] = xd }

\* the cells of the slice xd of axis d with a solid voxel on exactly one side
FaceCells(d, xd) ==
    LET u == (d + 1) % 3
        v == (d + 2) % 3
    IN  { c \in (0..(dims[u + 1] - 1)) \X (0..(dims[v + 1] - 1)) :
            LET p == AxisPoint(d, xd, c[1], c[2])
                q == AxisPoint(d, xd + 1, c[1], c[2])
            IN  (get_voxel(voxels, p[1], p[2], p[3]) # 0)
                  # (get_voxel(voxels, q[1], q[2], q[3]) # 0) }

\* C23: in every slice of every axis, the boundary slices included, the
\* quads generate_mesh emitted are pairwise disjoint, cover exactly the cells
\* with a solid voxel on one side only, and each covers only cells whose mask
\* value is the value it was emitted with.
C23_QuadsTileTheFaces ==
    mesh.built =>
      \A d \in 0..2 : \A xd \in -1..(dims[d + 1] - 1) :
         /\ \A k1 \in SliceQuads(d, xd), k2 \in SliceQuads(d, xd) :
               k1 # k2 => QuadCells(mesh.quads[k1]) \cap QuadCells(mesh.quads[k2]) = { }
         /\ UNION { QuadCells(mesh.quads[k]) : k \in SliceQuads(d, xd) } = FaceCells(d, xd)
         /\ \A k \in SliceQuads(d, xd) : \A c \in QuadCells(mesh.quads[k]) :
               MaskEntry(voxels, d, xd, c[1] + c[2] * dims[((d + 1) % 3) + 1]) = mesh.quads[k].val

\* C23 witness: a meshed slice whose faces form an L, three cells of one
\* value, which takes two quads
C23_Witness_LShapedSlice ==
    /\ mesh.built
    /\ \E d \in 0..2 : \E xd \in -1..(dims[d + 1] - 1) :
          /\ Cardinality(FaceCells(d, xd)) = 3
          /\ Cardinality(SliceQuads(d, xd)) = 2
          /\ \A k1 \in SliceQuads(d, xd), k2 \in SliceQuads(d, xd) :
                mesh.quads[k1].val = mesh.quads[k2].val

\* ---------------------------------------------------------------------------
\* C24: every emitted quad over a face whose solid voxel is on the far side
\* of the slicing plane has a negative value whose absolute value is that
\* voxel's type; every quad's block id is the type of its solid voxel; on the
\* y axis top faces get shading 1.0 and bottom faces 0.5.
C24_FarSideIsNegated ==
    mesh.built =>
      \A k \in 1..Len(mesh.quads) :
         LET q == mesh.quads[k]
         IN  \A c \in QuadCells(q) :
                LET p == AxisPoint(q.d, q.x[q.d + 1], c[1], c[2])
                    f == AxisPoint(q.d, q.x[q.d + 1] + 1, c[1], c[2])
                    a == get_voxel(voxels, p[1], p[2], p[3])
                    b == get_voxel(voxels, f[1], f[2], f[3])
                IN  /\ a # 0 =>
                          /\ add_quad(q.val, q.d).block_id = a
                          /\ q.d = 1 => add_quad(q.val, q.d).shading = 10
                    /\ a = 0 =>
                          /\ q.val < 0
                          /\ -q.val = b
                          /\ add_quad(q.val, q.d).block_id = b
                          /\ q.d = 1 => add_quad(q.val, q.d).shading = 5

\* ---------------------------------------------------------------------------
\* the stored type t is that of a non-air block / of an opaque block
NonAir(t) == t # 0 /\ t # AIR_VALUE
Opaque(t) == NonAir(t) /\ BlockTypeEnum[t] \in OpaqueRefs

\* the faces the visibility rule gives the chunk c: a side of a non-air cell
\* whose neighbour is air (or lies outside the chunk), or of an opaque cell
\* whose neighbour is a non-air block that is not opaque
RuleFaces(c) ==
    { f \in (0..(CHUNK_WIDTH - 1)) \X (0..(CHUNK_HEIGHT - 1)) \X (0..(CHUNK_DEPTH - 1)) \X (1..6) :
        LET t == c.type[_get_index(f[1], f[2], f[3])]
            nx == f[1] + FaceOffsets[f[4]][1]
            ny == f[2] + FaceOffsets[f[4]][2]
            nz == f[3] + FaceOffsets[f[4]][3]
        IN  /\ NonAir(t)
            /\ \/ ~InBounds(nx, ny, nz)
               \/ ~NonAir(c.type[_get_index(nx, ny, nz)])
               \/ Opaque(t) /\ ~Opaque(c.type[_get_index(nx, ny, nz)]) }

\* C25: build_mesh over all cells of the chunk returns, without raising,
\* exactly 6 vertices of 7 floats for each face of the visibility rule and
\* nothing else.
C25_FacesFollowRule ==
    (last.op = "build_mesh" /\ last.x >= CHUNK_VOLUME) =>
       /\ last.exc = "none"
       /\ last.ret = 6 * 7 * Cardinality(RuleFaces(chunk))

C28_Side_PresentChunk ==
    [][ \A t \in Threads :
          (thr[t].op = "get_height_at" /\ ~thr[t].missed /\ thr[t].pc = "body" /\ thr'[t].pc = "done") =>
             /\ thr'[t].exc = "none"
             /\ thr'[t].val = chunks'[thr[t].home].height_map[
                                  LocalZ(thr[t].z, thr[t].home) * CHUNK_WIDTH
                                    + LocalX(thr[t].x, thr[t].home)] ]_vars

\* a get_height_at call that found its chunk absent and got it from
\* _generate_chunk returned -1, the out-of-range answer of Chunk.get_height_at
C28_Side_AbsentReturnsMinusOne ==
    \A t \in Threads :
       (thr[t].op = "get_height_at" /\ thr[t].missed /\ thr[t].pc = "done" /\ thr[t].exc = "none")
          => thr[t].val = -1

C29_Side_AtMostTen == Len(ticked.last) <= 10

\* the chunks that are ever ticked are the first ten that entered the map
C29_Side_OnlyTheFirstTen == \A k \in ticked.done : k <= 10

====
